---- MODULE Spec2Model ----
(***************************************************************************)
(* Breakout-room bot: the persistent Operation Store (state.ts), the       *)
(* in-memory Session Registry (session.ts) and the three checkpointed       *)
(* executors (create.ts, end.ts, distribute) driven by the /breakout       *)
(* command, and the breakout timer monitors (timer.ts, TimerService).      *)
(* Every action is the code that runs between two awaits of real I/O       *)
(* (platform call, reply, file write).                                     *)
(***************************************************************************)
EXTENDS Integers, Sequences, FiniteSets, TLC

\* ---------------------------------------------------------------- bounds
NumMembers == 2
MaxRooms == 2
MaxOps == 3
MaxFailures == 2
MaxCrashes == 1
MaxOutOfBand == 1
MaxCalls == 3
MaxReadFailures == 1
MaxWriteFailures == 1
MaxUsers == 4
MaxTime == 20
MaxMonitors == 2
MaxTicks == 2

\* ------------------------------------------------------ program constants
HISTORY_MAX == 50

\* ------------------------------------------------------------ vocabulary
Members == 1 .. NumMembers
GuildId == 1
MainRoom == 0
NoChannel == -1

VARIABLES
  inMemoryState,   \* state.ts: key -> GuildState (canonical, in memory)
  disk,            \* contents of data/breakoutState.json
  nextOid,         \* identity of the next operation object created
  detached,        \* oid -> steps of operation objects no longer in the store
  sessions,        \* session.ts: the guild's BreakoutSession
  channels,        \* platform: existing breakout voice channel id -> name index
  nextChannel,     \* platform: next channel id handed out
  voice,           \* platform: member -> voice channel
  proc,            \* the running command invocations
  failures,        \* failed platform calls so far
  crashes,         \* process restarts so far
  outOfBand,       \* out-of-band platform changes so far
  audit,           \* observations of the external side effects performed
  initialized,     \* state.ts: the flag set by initialize()
  saveQueue,       \* state.ts: the promise the next save chains on (a call id)
  calls,           \* store calls in flight, with their save jobs
  storeAudit,      \* observations of loads, writes and mutations of the store
  now,             \* Date.now(), in poll periods of 20 s
  monitors         \* timer.ts: the monitor loops started, with their ticks

timerVars == << now, monitors >>

execVars == << nextOid, detached, sessions, channels, nextChannel, voice, proc,
               failures, crashes, outOfBand, audit, timerVars >>

storeVars == << initialized, saveQueue, calls, storeAudit >>

vars == << inMemoryState, disk, execVars, storeVars >>

\* ------------------------------------------------------------- utilities
Min(S) == CHOOSE x \in S : \A y \in S : x <= y

RECURSIVE SetToSeq(_)
SetToSeq(S) == IF S = {} THEN << >>
               ELSE << Min(S) >> \o SetToSeq(S \ {Min(S)})

Range(s) == { s[k] : k \in 1 .. Len(s) }

\* --------------------------------------------------------------- records
GuildKey(g) == << "", g >>
\* a timer stored under the guild's own key
TimerKeyUnprefixed(g) == GuildKey(g)

TimerKey(g) == << "timer_", g >>

NoParams == [ numRooms |-> 0, mainRoomId |-> NoChannel, roomIds |-> << >>,
              distribution |-> << >> ]
NoData == [ channelId |-> 0, movedCount |-> -1, roomIds |-> << >>,
            successful |-> -1, failed |-> -1 ]
NoOp == [ oid |-> 0, type |-> "none", params |-> NoParams, steps |-> << >>,
          started |-> FALSE, completed |-> FALSE ]
NoGuildState == [ currentOperation |-> NoOp, history |-> << >> ]

StepKey(kind, a, b) == << kind, a, b >>

\* the state file: missing, unparseable, or the serialized state map
FileWith(state) == [ status |-> "ok", data |-> state ]
NoFile == [ status |-> "missing", data |-> << >> ]
CorruptFile == [ status |-> "corrupt", data |-> << >> ]

\* ------------------------------------------------- Operation Store (pure)
GuildStateOf(state, g) ==
  IF GuildKey(g) \in DOMAIN state THEN state[GuildKey(g)] ELSE NoGuildState

GetCurrentOperation(state, g) == GuildStateOf(state, g).currentOperation

HasOperationInProgress(state, g) ==
  /\ GetCurrentOperation(state, g) # NoOp
  /\ ~ GetCurrentOperation(state, g).completed

GetCompletedSteps(state, g) == GetCurrentOperation(state, g).steps

PutGuild(state, g, gs) ==
  [ k \in DOMAIN state \cup { GuildKey(g) } |->
      IF k = GuildKey(g) THEN gs ELSE state[k] ]

FreshOperation(oid, operationType, params) ==
  [ oid |-> oid, type |-> operationType, params |-> params, steps |-> << >>,
    started |-> TRUE, completed |-> FALSE ]

\* a startOperation that leaves an operation in progress alone
StartOperationIfIdle(state, g, operationType, params, oid) ==
  IF HasOperationInProgress(state, g) THEN state
  ELSE PutGuild(state, g,
                [ GuildStateOf(state, g) EXCEPT
                    !.currentOperation =
                       FreshOperation(oid, operationType, params) ])

StartOperation(state, g, operationType, params, oid) ==
  PutGuild(state, g,
           [ GuildStateOf(state, g) EXCEPT
               !.currentOperation = FreshOperation(oid, operationType, params) ])

\* an upsert that keeps the payload a key already has
StepKeptIfPresent(steps, key, data) ==
  [ k \in DOMAIN steps \cup { key } |->
      IF k \in DOMAIN steps THEN steps[k] ELSE data ]

UpsertStep(steps, key, data) ==
  [ k \in DOMAIN steps \cup { key } |-> IF k = key THEN data ELSE steps[k] ]

\* an updateProgress without the check of lines 156-162
CurrentOperationUnchecked(state, g) == TRUE

UpdateProgressOk(state, g) == GetCurrentOperation(state, g) # NoOp

\* an updateProgress that records nothing
UpdateProgressLost(state, g, key, data) == state

UpdateProgress(state, g, key, data) ==
  IF ~ UpdateProgressOk(state, g) THEN state
  ELSE PutGuild(state, g,
         [ GuildStateOf(state, g) EXCEPT
             !.currentOperation.steps = UpsertStep(@, key, data) ])

\* a cap that keeps the oldest entries
OldestKept(h) ==
  IF Len(h) > HISTORY_MAX THEN SubSeq(h, 1, HISTORY_MAX) ELSE h

CapHistory(h) ==
  IF Len(h) > HISTORY_MAX THEN SubSeq(h, Len(h) - HISTORY_MAX + 1, Len(h))
  ELSE h

\* a completeOperation that marks the operation and leaves it current
CompleteKeepsCurrent(state, g) ==
  IF GetCurrentOperation(state, g) = NoOp THEN state
  ELSE PutGuild(state, g,
         [ GuildStateOf(state, g) EXCEPT !.currentOperation.completed = TRUE ])

\* lines 184-185 set progress.completed and progress.completedTime together:
\* `completed` stands for both
CompleteOperation(state, g) ==
  IF GetCurrentOperation(state, g) = NoOp THEN state
  ELSE PutGuild(state, g,
         [ currentOperation |-> NoOp,
           history |-> CapHistory(Append(GuildStateOf(state, g).history,
                         [ GetCurrentOperation(state, g) EXCEPT
                             !.completed = TRUE ])) ])

\* the steps object a variable of an executor refers to
RECURSIVE HistorySteps(_, _)
HistorySteps(h, oid) ==
  IF h = << >> THEN << >>
  ELSE IF h[Len(h)].oid = oid THEN h[Len(h)].steps
  ELSE HistorySteps(SubSeq(h, 1, Len(h) - 1), oid)

StepsVia(oid) ==
  IF oid = 0 THEN << >>
  ELSE IF GetCurrentOperation(inMemoryState, GuildId).oid = oid
       THEN GetCurrentOperation(inMemoryState, GuildId).steps
  ELSE IF oid \in DOMAIN detached THEN detached[oid]
  ELSE HistorySteps(GuildStateOf(inMemoryState, GuildId).history, oid)

\* --------------------------------------------------- Session Registry
NoSession == [ rooms |-> << >>, mainRoom |-> NoChannel ]

StoreRooms(s, rooms) == [ s EXCEPT !.rooms = rooms ]
SetMainRoom(s, mainRoom) == [ s EXCEPT !.mainRoom = mainRoom ]
GetRooms(s) == s.rooms
GetMainRoom(s) == s.mainRoom
\* a clearSession that leaves the session in place
SessionKept(s) == s

ClearSession(s) == NoSession

\* ------------------------------------------------------------- platform
MembersIn(c) == { m \in Members : voice[m] = c }
\* guild.channels.cache filtered by the 'breakout-room-' name prefix
PatternRooms == SetToSeq(DOMAIN channels)
\* guild.channels.cache.find by name
FindByName(i) ==
  IF \E c \in DOMAIN channels : channels[c] = i
  THEN Min({ c \in DOMAIN channels : channels[c] = i }) ELSE 0


\* ------------------------------------------------- command invocations
Procs == { 1, 2 }

IdleProc ==
  [ pc |-> "idle", cmd |-> "none", numRooms |-> 0, force |-> FALSE,
    isResuming |-> FALSE, steps |-> 0, i |-> 0, ret |-> 0,
    createdChannels |-> << >>, cleanup |-> << >>,
    breakoutRooms |-> << >>, users |-> << >>, distribution |-> << >>,
    roomMembers |-> << >>, roomMovedCount |-> 0,
    totalMoved |-> 0, deletedRooms |-> 0, totalRooms |-> 0,
    pending |-> {}, moveSuccess |-> {}, moveFailed |-> {},
    result |-> "none",
    \* observations, not program state
    entrySteps |-> << >>, entryChannels |-> {}, entrySession |-> NoSession,
    entryOutOfBand |-> 0, entryOp |-> NoOp,
    creations |-> 0, moves |-> 0, deletions |-> 0, extFailed |-> FALSE,
    failedCall |-> "none" ]

Idle(p) == proc[p].pc = "idle"

\* a command is dispatched while the budget of operations allows a new one,
\* or to resume the operation in progress
CanDispatch ==
  \/ nextOid + Cardinality({ q \in Procs : proc[q].pc # "idle" }) <= MaxOps
  \/ /\ HasOperationInProgress(inMemoryState, GuildId)
     /\ \A q \in Procs : proc[q].pc = "idle"

Finish(r, res) == [ r EXCEPT !.pc = "done", !.result = res ]

\* a mutation of the store followed by `await saveState()`
Persist(newState) ==
  /\ inMemoryState' = newState
  /\ disk' = FileWith(newState)

\* startOperation replaces the current operation object
StartDetached(state) ==
  IF GetCurrentOperation(state, GuildId) = NoOp THEN detached
  ELSE [ o \in DOMAIN detached \cup { GetCurrentOperation(state, GuildId).oid } |->
           IF o = GetCurrentOperation(state, GuildId).oid
           THEN GetCurrentOperation(state, GuildId).steps ELSE detached[o] ]

\* a resume that never finds a step recorded
StepIgnored(steps, key) == FALSE

\* `if (steps[stepKey])`: the step is recorded as completed
StepRecorded(steps, key) == key \in DOMAIN steps

\* ------------------------------------------------------ room.ts helpers
\* hasExistingBreakoutRooms: << exists, rooms, session after the sync >>
HasExistingBreakoutRooms(s) ==
  LET storedRooms == GetRooms(s)
      existingRooms == SelectSeq(storedRooms, LAMBDA c : c \in DOMAIN channels)
      synced == IF Len(existingRooms) # Len(storedRooms)
                THEN IF Len(existingRooms) > 0 THEN StoreRooms(s, existingRooms)
                     ELSE ClearSession(s)
                ELSE s
  IN IF Len(storedRooms) > 0 /\ Len(existingRooms) > 0
     THEN [ exists |-> TRUE, rooms |-> existingRooms, session |-> synced ]
     ELSE IF Len(PatternRooms) > 0
     THEN [ exists |-> TRUE, rooms |-> PatternRooms, session |-> synced ]
     ELSE [ exists |-> FALSE, rooms |-> << >>, session |-> synced ]

\* room.delete(): the members of a deleted voice channel are disconnected
DeleteChannel(c) ==
  /\ channels' = [ d \in DOMAIN channels \ { c } |-> channels[d] ]
  /\ voice' = [ m \in Members |-> IF voice[m] = c THEN NoChannel ELSE voice[m] ]

\* ------------------------------------------------------- /breakout ...
\* command.execute up to the first await of platform I/O
Blocked(sub) ==
  /\ HasOperationInProgress(inMemoryState, GuildId)
  /\ GetCurrentOperation(inMemoryState, GuildId).type # sub

Observe(r) ==
  [ r EXCEPT !.entrySteps = GetCompletedSteps(inMemoryState, GuildId),
             !.entryOp = GetCurrentOperation(inMemoryState, GuildId),
             !.entryChannels = DOMAIN channels,
             !.entrySession = sessions,
             !.entryOutOfBand = outOfBand ]

DispatchCreate(p) ==
  /\ Idle(p)
  /\ CanDispatch
  /\ \E n \in 1 .. MaxRooms, f \in BOOLEAN :
       proc' = [ proc EXCEPT ![p] =
                 IF Blocked("create")
                 THEN Finish(Observe([ IdleProc EXCEPT !.cmd = "create" ]), "blocked")
                 ELSE Observe([ IdleProc EXCEPT !.pc = "defer", !.cmd = "create",
                                                !.numRooms = n, !.force = f ]) ]
  /\ UNCHANGED << storeVars, inMemoryState, disk, nextOid, detached, sessions, channels,
                  nextChannel, voice, failures, crashes, outOfBand, audit,
                  timerVars >>

\* ------------------------------------------------------- executeCreate
CreateKey(i) == StepKey("create_room", i, 0)

\* a resume that finds no channel for a recorded step
ChannelNotLookedUp(steps, i) == 0

\* lines 246-264: the channel of an already recorded create_room step
ExistingChannel(steps, i) ==
  LET storedChannelId == steps[CreateKey(i)].channelId
  IN IF storedChannelId # 0 /\ storedChannelId \in DOMAIN channels
     THEN storedChannelId ELSE FindByName(i)

\* the loop of lines 236-282 up to the next createRoom call
RECURSIVE CreateLoop(_, _)
CreateLoop(r, steps) ==
  IF r.i <= r.numRooms /\ StepRecorded(steps, CreateKey(r.i))
     /\ ExistingChannel(steps, r.i) # 0
  THEN CreateLoop([ r EXCEPT !.i = @ + 1,
                      !.createdChannels = Append(@, ExistingChannel(steps, r.i)) ],
                  steps)
  ELSE r

\* continue executeCreate from loop index r.i (steps fetched before the loop)
CreateContinue(p, r0) ==
  LET r == CreateLoop(r0, StepsVia(r0.steps))
      recorded == CreateKey(r.i) \in DOMAIN GetCompletedSteps(inMemoryState, GuildId)
  IN IF r.i <= r.numRooms
     THEN /\ proc' = [ proc EXCEPT ![p] = [ r EXCEPT !.pc = "create_room",
                                                   !.creations = @ + 1 ] ]
          /\ audit' = [ audit EXCEPT
               !.dup = IF recorded THEN @ \cup { "create" } ELSE @,
               !.dupLive = @ \/ ( recorded /\
                   ExistingChannel(GetCompletedSteps(inMemoryState, GuildId), r.i) # 0 ) ]
          /\ UNCHANGED << inMemoryState, disk, timerVars >>
     ELSE /\ proc' = [ proc EXCEPT ![p] = [ r EXCEPT !.pc = "store_rooms" ] ]
          /\ Persist(UpdateProgress(inMemoryState, GuildId, StepKey("store_rooms", 0, 0),
                       [ NoData EXCEPT !.roomIds = r.createdChannels ]))
          /\ UNCHANGED audit

CreateStart(p, r) ==
  /\ Persist(StartOperation(inMemoryState, GuildId, "create",
                            [ NoParams EXCEPT !.numRooms = r.numRooms ], nextOid))
  /\ detached' = StartDetached(inMemoryState)
  /\ nextOid' = nextOid + 1
  /\ proc' = [ proc EXCEPT ![p] = [ r EXCEPT !.pc = "create_started" ] ]

\* an executeCreate that starts its record before the precondition check
CreateStartsBeforeCheck(p) ==
  /\ proc[p].pc = "defer" /\ proc[p].cmd = "create"
  /\ Persist(StartOperation(inMemoryState, GuildId, "create",
                            [ NoParams EXCEPT !.numRooms = proc[p].numRooms ], nextOid))
  /\ detached' = StartDetached(inMemoryState)
  /\ nextOid' = nextOid + 1
  /\ proc' = [ proc EXCEPT ![p] = Finish(@, "rooms_exist") ]
  /\ UNCHANGED << storeVars, sessions, channels, nextChannel, voice, failures,
                  crashes, outOfBand, audit, timerVars >>

\* lines 195-227, after the reply was deferred
CreateEntry(p) ==
  LET r == proc[p]
      currentOp == GetCurrentOperation(inMemoryState, GuildId)
      existingRooms == HasExistingBreakoutRooms(sessions)
  IN /\ proc[p].pc = "defer" /\ proc[p].cmd = "create"
     /\ IF currentOp.type = "create"
        THEN /\ CreateContinue(p, [ r EXCEPT !.isResuming = TRUE, !.i = 1,
                                             !.steps = currentOp.oid ])
             /\ UNCHANGED << nextOid, detached, sessions, timerVars >>
        ELSE IF existingRooms.exists /\ ~ r.force
        THEN /\ proc' = [ proc EXCEPT ![p] = Finish(r, "rooms_exist") ]
             /\ sessions' = existingRooms.session
             /\ UNCHANGED << inMemoryState, disk, nextOid, detached, audit, timerVars >>
        ELSE IF existingRooms.exists
        THEN /\ proc' = [ proc EXCEPT ![p] = [ r EXCEPT !.pc = "cleanup",
                                                 !.cleanup = existingRooms.rooms ] ]
             /\ sessions' = existingRooms.session
             /\ UNCHANGED << inMemoryState, disk, nextOid, detached, audit, timerVars >>
        ELSE /\ CreateStart(p, r)
             /\ sessions' = existingRooms.session
             /\ UNCHANGED audit
     /\ UNCHANGED << storeVars, channels, nextChannel, voice, failures, crashes, outOfBand,
                     timerVars >>

\* a force cleanup that starts the record after its first deleteRoom
CleanupStartsEarly(p, faulty) ==
  /\ proc[p].pc = "cleanup"
  /\ Head(proc[p].cleanup) \in DOMAIN channels
  /\ DeleteChannel(Head(proc[p].cleanup))
  /\ sessions' = ClearSession(sessions)
  /\ CreateStart(p, [ proc[p] EXCEPT !.cleanup = Tail(@), !.deletions = @ + 1 ])
  /\ UNCHANGED << storeVars, nextChannel, failures, crashes, outOfBand, audit,
                  timerVars >>

\* lines 219-226: one deleteRoom of the force cleanup has settled
CreateCleanup(p, faulty) ==
  LET r == proc[p]
      room == Head(r.cleanup)
  IN /\ r.pc = "cleanup"
     /\ \/ /\ room \in DOMAIN channels
           /\ DeleteChannel(room)
           /\ IF Len(r.cleanup) > 1
              THEN /\ proc' = [ proc EXCEPT ![p] = [ r EXCEPT !.cleanup = Tail(@),
                                                       !.deletions = @ + 1 ] ]
                   /\ UNCHANGED << inMemoryState, disk, nextOid, detached, sessions, timerVars >>
              ELSE /\ sessions' = ClearSession(sessions)
                   /\ CreateStart(p, [ r EXCEPT !.cleanup = << >>, !.deletions = @ + 1 ])
           /\ UNCHANGED failures
        \/ /\ (faulty /\ failures < MaxFailures) \/ room \notin DOMAIN channels
           /\ failures' = IF room \in DOMAIN channels THEN failures + 1 ELSE failures
           /\ proc' = [ proc EXCEPT ![p] = Finish([ r EXCEPT !.extFailed = TRUE,
                     !.failedCall = "delete" ], "threw") ]
           /\ UNCHANGED << inMemoryState, disk, nextOid, detached, sessions,
                           channels, voice, timerVars >>
     /\ UNCHANGED << storeVars, nextChannel, crashes, outOfBand, audit, timerVars >>

\* line 233, after startOperation's save settled
CreateStarted(p) ==
  /\ proc[p].pc = "create_started"
  /\ CreateContinue(p, [ proc[p] EXCEPT !.i = 1,
                           !.steps = GetCurrentOperation(inMemoryState, GuildId).oid ])
  /\ UNCHANGED << storeVars, nextOid, detached, sessions, channels, nextChannel, voice,
                  failures, crashes, outOfBand, timerVars >>

\* createChannel on the platform settles
CreateRoomCall(p, faulty) ==
  /\ proc[p].pc = "create_room"
  /\ \/ /\ channels' = [ c \in DOMAIN channels \cup { nextChannel } |->
                           IF c = nextChannel THEN proc[p].i ELSE channels[c] ]
        /\ nextChannel' = nextChannel + 1
        /\ proc' = [ proc EXCEPT ![p] = [ @ EXCEPT !.pc = "create_room_ret",
                                                   !.ret = nextChannel ] ]
        /\ UNCHANGED failures
     \/ /\ (faulty /\ failures < MaxFailures)
        /\ failures' = failures + 1
        /\ proc' = [ proc EXCEPT ![p] = [ @ EXCEPT !.pc = "create_room_ret",
                                                   !.ret = 0, !.extFailed = TRUE,
                     !.failedCall = "create" ] ]
        /\ UNCHANGED << channels, nextChannel, timerVars >>
  /\ UNCHANGED << storeVars, inMemoryState, disk, nextOid, detached, sessions, voice,
                  crashes, outOfBand, audit, timerVars >>

\* lines 273-281 and the catch of lines 303-311
CreateRoomRet(p) ==
  LET r == proc[p]
  IN /\ r.pc = "create_room_ret"
     /\ IF r.ret = 0
        THEN /\ proc' = [ proc EXCEPT ![p] = Finish(r, "error") ]
             /\ UNCHANGED << inMemoryState, disk, timerVars >>
        ELSE /\ proc' = [ proc EXCEPT ![p] =
                          [ r EXCEPT !.pc = "create_saved",
                                     !.createdChannels = Append(@, r.ret) ] ]
             /\ Persist(UpdateProgress(inMemoryState, GuildId, CreateKey(r.i),
                                       [ NoData EXCEPT !.channelId = r.ret ]))
     /\ UNCHANGED << storeVars, nextOid, detached, sessions, channels, nextChannel, voice,
                     failures, crashes, outOfBand, audit, timerVars >>

\* the save of a create_room step settled: next loop iteration
CreateSaved(p) ==
  /\ proc[p].pc = "create_saved"
  /\ CreateContinue(p, [ proc[p] EXCEPT !.i = @ + 1 ])
  /\ UNCHANGED << storeVars, nextOid, detached, sessions, channels, nextChannel, voice,
                  failures, crashes, outOfBand, timerVars >>

\* lines 288-291
CreateStoreRooms(p) ==
  /\ proc[p].pc = "store_rooms"
  /\ sessions' = StoreRooms(sessions, proc[p].createdChannels)
  /\ Persist(CompleteOperation(inMemoryState, GuildId))
  /\ proc' = [ proc EXCEPT ![p] = [ @ EXCEPT !.pc = "create_complete" ] ]
  /\ UNCHANGED << storeVars, nextOid, detached, channels, nextChannel, voice,
                  failures, crashes, outOfBand, audit, timerVars >>

\* lines 293-302
CreateReturn(p) ==
  /\ proc[p].pc = "create_complete"
  /\ proc' = [ proc EXCEPT ![p] = Finish(@, "success") ]
  /\ UNCHANGED << storeVars, inMemoryState, disk, nextOid, detached, sessions, channels,
                  nextChannel, voice, failures, crashes, outOfBand, audit,
                  timerVars >>


\* ---------------------------------------------------------- executeEnd
DispatchEnd(p) ==
  /\ Idle(p)
  /\ CanDispatch
  /\ \E f \in BOOLEAN, mainGiven \in BOOLEAN :
       proc' = [ proc EXCEPT ![p] =
                 LET r == Observe([ IdleProc EXCEPT !.cmd = "end", !.force = f ])
                 IN IF Blocked("end") THEN Finish(r, "blocked")
                    ELSE IF ~ mainGiven /\ GetMainRoom(sessions) = NoChannel
                    THEN Finish(r, "need_main")
                    ELSE [ r EXCEPT !.pc = "defer" ] ]
  /\ UNCHANGED << storeVars, inMemoryState, disk, nextOid, detached, sessions, channels,
                  nextChannel, voice, failures, crashes, outOfBand, audit,
                  timerVars >>

MemberMovedKey(m, room) == StepKey("member_moved", m, room)
RoomDeletedKey(room) == StepKey("room_deleted", room, 0)
RoomProcessedKey(room) == StepKey("room_processed", room, 0)

\* lines 55-60: the rooms of a resumed end operation
ResumeRooms(storedRoomIds) ==
  SelectSeq(storedRoomIds, LAMBDA c : c \in DOMAIN channels)

\* lines 67-80: Session Registry first, name pattern as fallback
DiscoverRooms(s) == IF Len(GetRooms(s)) = 0 THEN PatternRooms ELSE GetRooms(s)

\* lines 91-102
HasUsers(rooms) ==
  \E k \in 1 .. Len(rooms) :
     rooms[k] \in DOMAIN channels /\ MembersIn(rooms[k]) # {}

\* lines 149-155: a room already marked processed
CountProcessed(r, steps, room) ==
  [ r EXCEPT !.deletedRooms = @ + 1,
             !.totalMoved = IF steps[RoomProcessedKey(room)].movedCount >= 0
                            THEN @ + steps[RoomProcessedKey(room)].movedCount
                            ELSE @,
             !.i = @ + 1 ]

\* lines 132-157: skip the rooms already processed
RECURSIVE EndLoop(_, _)
EndLoop(r, steps) ==
  IF r.i <= Len(r.breakoutRooms)
     /\ StepRecorded(steps, RoomProcessedKey(r.breakoutRooms[r.i]))
  THEN EndLoop(CountProcessed(r, steps, r.breakoutRooms[r.i]), steps)
  ELSE r

\* lines 181-192: skip the members already recorded as moved, and (moveUser,
\* member.ts 15-21) those no longer in a voice channel
RECURSIVE MemberLoop(_, _, _)
MemberLoop(r, steps, room) ==
  IF r.roomMembers = << >> THEN r
  ELSE IF StepRecorded(steps, MemberMovedKey(Head(r.roomMembers), room))
  THEN MemberLoop([ r EXCEPT !.roomMembers = Tail(@), !.totalMoved = @ + 1,
                             !.roomMovedCount = @ + 1 ], steps, room)
  ELSE IF voice[Head(r.roomMembers)] = NoChannel
  THEN MemberLoop([ r EXCEPT !.roomMembers = Tail(@) ], steps, room)
  ELSE r

\* lines 179-244 from the member loop to the next await
EndRoom(p, r0) ==
  LET room == r0.breakoutRooms[r0.i]
      r == MemberLoop(r0, StepsVia(r0.steps), room)
      live == GetCompletedSteps(inMemoryState, GuildId)
  IN IF r.roomMembers # << >>
     THEN /\ proc' = [ proc EXCEPT ![p] = [ r EXCEPT !.pc = "end_move",
                                                   !.moves = @ + 1 ] ]
          /\ audit' = [ audit EXCEPT !.dup =
               IF MemberMovedKey(Head(r.roomMembers), room) \in DOMAIN live
               THEN @ \cup { "move" } ELSE @ ]
          /\ UNCHANGED << inMemoryState, disk, timerVars >>
     ELSE IF ~ StepRecorded(StepsVia(r.steps), RoomDeletedKey(room))
     THEN /\ proc' = [ proc EXCEPT ![p] = [ r EXCEPT !.pc = "end_delete",
                                                   !.deletions = @ + 1 ] ]
          /\ audit' = [ audit EXCEPT !.dup =
               IF RoomDeletedKey(room) \in DOMAIN live
               THEN @ \cup { "delete" } ELSE @ ]
          /\ UNCHANGED << inMemoryState, disk, timerVars >>
     ELSE /\ proc' = [ proc EXCEPT ![p] = [ r EXCEPT !.pc = "end_processed",
                                                   !.deletedRooms = @ + 1 ] ]
          /\ Persist(UpdateProgress(inMemoryState, GuildId, RoomProcessedKey(room),
                       [ NoData EXCEPT !.movedCount = r.roomMovedCount ]))
          /\ UNCHANGED audit

\* lines 132-177 and 254-255: the room loop up to the next await
EndContinue(p, r0) ==
  LET r == EndLoop(r0, GetCompletedSteps(inMemoryState, GuildId))
      room == r.breakoutRooms[r.i]
  IN IF r.i > Len(r.breakoutRooms)
     THEN /\ proc' = [ proc EXCEPT ![p] = [ r EXCEPT !.pc = "end_clear" ] ]
          /\ Persist(UpdateProgress(inMemoryState, GuildId,
                                    StepKey("clear_session", 0, 0), NoData))
          /\ UNCHANGED audit
     ELSE IF room \notin DOMAIN channels
     THEN /\ proc' = [ proc EXCEPT ![p] = [ r EXCEPT !.pc = "end_skipped" ] ]
          /\ Persist(UpdateProgress(inMemoryState, GuildId, RoomProcessedKey(room),
                       [ NoData EXCEPT !.movedCount = 0 ]))
          /\ UNCHANGED audit
     ELSE EndRoom(p, [ r EXCEPT
                         !.steps = GetCurrentOperation(inMemoryState, GuildId).oid,
                         !.roomMovedCount = 0,
                         !.roomMembers = SetToSeq(MembersIn(room)) ])

\* lines 41-124, after the reply was deferred
EndEntry(p) ==
  LET currentOp == GetCurrentOperation(inMemoryState, GuildId)
      isResuming == currentOp.type = "end"
      resumed == IF isResuming THEN ResumeRooms(currentOp.params.roomIds) ELSE << >>
      discover == ~ isResuming \/ Len(resumed) = 0
      breakoutRooms == IF discover THEN DiscoverRooms(sessions) ELSE resumed
      r == [ proc[p] EXCEPT !.isResuming = isResuming, !.i = 1,
                            !.breakoutRooms = breakoutRooms,
                            !.totalRooms = Len(breakoutRooms) ]
  IN /\ proc[p].pc = "defer" /\ proc[p].cmd = "end"
     /\ IF discover /\ Len(breakoutRooms) = 0
        THEN /\ proc' = [ proc EXCEPT ![p] = Finish(r, "no_rooms") ]
             /\ UNCHANGED << inMemoryState, disk, nextOid, detached, audit, timerVars >>
        ELSE IF discover /\ ~ HasUsers(breakoutRooms) /\ ~ r.force
        THEN /\ proc' = [ proc EXCEPT ![p] = Finish(r, "no_users") ]
             /\ UNCHANGED << inMemoryState, disk, nextOid, detached, audit, timerVars >>
        ELSE IF ~ isResuming
        THEN /\ Persist(StartOperation(inMemoryState, GuildId, "end",
                          [ NoParams EXCEPT !.mainRoomId = MainRoom,
                                            !.roomIds = breakoutRooms ], nextOid))
             /\ detached' = StartDetached(inMemoryState)
             /\ nextOid' = nextOid + 1
             /\ proc' = [ proc EXCEPT ![p] = [ r EXCEPT !.pc = "end_started" ] ]
             /\ audit' = [ audit EXCEPT !.endMoved = 0 ]
        ELSE /\ EndContinue(p, r)
             /\ UNCHANGED << nextOid, detached, timerVars >>
     /\ UNCHANGED << storeVars, sessions, channels, nextChannel, voice, failures, crashes,
                     outOfBand, timerVars >>

\* startOperation's save settled
EndStarted(p) ==
  /\ proc[p].pc = "end_started"
  /\ EndContinue(p, proc[p])
  /\ UNCHANGED << storeVars, nextOid, detached, sessions, channels, nextChannel, voice,
                  failures, crashes, outOfBand, timerVars >>

\* member.voice.setChannel(mainChannel) settles on the platform
EndMoveCall(p, faulty) ==
  LET m == Head(proc[p].roomMembers)
  IN /\ proc[p].pc = "end_move"
     /\ \/ /\ voice[m] # NoChannel
           /\ voice' = [ voice EXCEPT ![m] = MainRoom ]
           /\ proc' = [ proc EXCEPT ![p] = [ @ EXCEPT !.pc = "end_move_ret", !.ret = 1 ] ]
           /\ audit' = [ audit EXCEPT !.endMoved = @ + 1 ]
           /\ UNCHANGED failures
        \/ /\ (faulty /\ failures < MaxFailures) \/ voice[m] = NoChannel
           /\ failures' = IF voice[m] # NoChannel THEN failures + 1 ELSE failures
           /\ proc' = [ proc EXCEPT ![p] = [ @ EXCEPT !.pc = "end_move_ret", !.ret = 0,
                                                      !.extFailed = TRUE,
                     !.failedCall = "move" ] ]
           /\ UNCHANGED << voice, audit, timerVars >>
     /\ UNCHANGED << storeVars, inMemoryState, disk, nextOid, detached, sessions, channels,
                     nextChannel, crashes, outOfBand, timerVars >>

\* lines 195-212
EndMoveRet(p) ==
  LET r == proc[p]
      room == r.breakoutRooms[r.i]
  IN /\ r.pc = "end_move_ret"
     /\ IF r.ret = 1
        THEN /\ proc' = [ proc EXCEPT ![p] = [ r EXCEPT !.pc = "end_move_saved" ] ]
             /\ Persist(UpdateProgress(inMemoryState, GuildId,
                          MemberMovedKey(Head(r.roomMembers), room), NoData))
             /\ UNCHANGED audit
        ELSE EndRoom(p, [ r EXCEPT !.roomMembers = Tail(@) ])
     /\ UNCHANGED << storeVars, nextOid, detached, sessions, channels, nextChannel, voice,
                     failures, crashes, outOfBand, timerVars >>

\* lines 205-206, after the save of the member_moved step settled
EndMoveSaved(p) ==
  /\ proc[p].pc = "end_move_saved"
  /\ EndRoom(p, [ proc[p] EXCEPT !.roomMembers = Tail(@), !.totalMoved = @ + 1,
                                 !.roomMovedCount = @ + 1 ])
  /\ UNCHANGED << storeVars, nextOid, detached, sessions, channels, nextChannel, voice,
                  failures, crashes, outOfBand, timerVars >>

\* guildRoom.delete() settles on the platform
EndDeleteCall(p, faulty) ==
  LET room == proc[p].breakoutRooms[proc[p].i]
  IN /\ proc[p].pc = "end_delete"
     /\ \/ /\ room \in DOMAIN channels
           /\ DeleteChannel(room)
           /\ proc' = [ proc EXCEPT ![p] = [ @ EXCEPT !.pc = "end_delete_ret", !.ret = 1 ] ]
           /\ UNCHANGED failures
        \/ /\ (faulty /\ failures < MaxFailures) \/ room \notin DOMAIN channels
           /\ failures' = IF room \in DOMAIN channels THEN failures + 1 ELSE failures
           /\ proc' = [ proc EXCEPT ![p] = [ @ EXCEPT !.pc = "end_delete_ret", !.ret = 0,
                                                      !.extFailed = TRUE,
                     !.failedCall = "delete" ] ]
           /\ UNCHANGED << channels, voice, timerVars >>
     /\ UNCHANGED << storeVars, inMemoryState, disk, nextOid, detached, sessions,
                     nextChannel, crashes, outOfBand, audit, timerVars >>

\* lines 219-244
EndDeleteRet(p) ==
  LET r == proc[p]
      room == r.breakoutRooms[r.i]
  IN /\ r.pc = "end_delete_ret"
     /\ IF r.ret = 1
        THEN /\ proc' = [ proc EXCEPT ![p] = [ r EXCEPT !.pc = "end_delete_saved" ] ]
             /\ Persist(UpdateProgress(inMemoryState, GuildId, RoomDeletedKey(room), NoData))
        ELSE /\ proc' = [ proc EXCEPT ![p] = [ r EXCEPT !.pc = "end_processed" ] ]
             /\ Persist(UpdateProgress(inMemoryState, GuildId, RoomProcessedKey(room),
                          [ NoData EXCEPT !.movedCount = r.roomMovedCount ]))
     /\ UNCHANGED << storeVars, nextOid, detached, sessions, channels, nextChannel, voice,
                     failures, crashes, outOfBand, audit, timerVars >>

\* lines 226 and 242-244, after the save of the room_deleted step settled
EndDeleteSaved(p) ==
  LET r == proc[p]
      room == r.breakoutRooms[r.i]
  IN /\ r.pc = "end_delete_saved"
     /\ proc' = [ proc EXCEPT ![p] = [ r EXCEPT !.pc = "end_processed",
                                                !.deletedRooms = @ + 1 ] ]
     /\ Persist(UpdateProgress(inMemoryState, GuildId, RoomProcessedKey(room),
                  [ NoData EXCEPT !.movedCount = r.roomMovedCount ]))
     /\ UNCHANGED << storeVars, nextOid, detached, sessions, channels, nextChannel, voice,
                     failures, crashes, outOfBand, audit, timerVars >>

\* the save of the room_processed step settled: next room
EndProcessed(p) ==
  /\ proc[p].pc = "end_processed"
  /\ EndContinue(p, [ proc[p] EXCEPT !.i = @ + 1 ])
  /\ UNCHANGED << storeVars, nextOid, detached, sessions, channels, nextChannel, voice,
                  failures, crashes, outOfBand, timerVars >>

\* lines 171-176, the room no longer exists
EndSkipped(p) ==
  /\ proc[p].pc = "end_skipped"
  /\ EndContinue(p, [ proc[p] EXCEPT !.i = @ + 1, !.deletedRooms = @ + 1 ])
  /\ UNCHANGED << storeVars, nextOid, detached, sessions, channels, nextChannel, voice,
                  failures, crashes, outOfBand, timerVars >>

\* lines 256-259
EndClear(p) ==
  /\ proc[p].pc = "end_clear"
  /\ sessions' = ClearSession(sessions)
  /\ Persist(CompleteOperation(inMemoryState, GuildId))
  /\ proc' = [ proc EXCEPT ![p] = [ @ EXCEPT !.pc = "end_complete" ] ]
  /\ UNCHANGED << storeVars, nextOid, detached, channels, nextChannel, voice,
                  failures, crashes, outOfBand, audit, timerVars >>

\* lines 261-269
EndReturn(p) ==
  /\ proc[p].pc = "end_complete"
  /\ proc' = [ proc EXCEPT ![p] = Finish(@, "success") ]
  /\ UNCHANGED << storeVars, inMemoryState, disk, nextOid, detached, sessions, channels,
                  nextChannel, voice, failures, crashes, outOfBand, audit,
                  timerVars >>


\* --------------------------------------------------- distributeUsers
\* the outcomes of the Fisher-Yates shuffle of lines 47-50
Shuffles(users) ==
  { f \in [ 1 .. Len(users) -> Range(users) ] :
      \A a, b \in 1 .. Len(users) : a # b => f[a] # f[b] }

\* a distribution that fills the first room only
FirstRoomTakesAll(userArray, breakoutRooms) ==
  [ k \in 1 .. Len(breakoutRooms) |->
      [ room |-> breakoutRooms[k],
        users |-> IF k = 1 THEN userArray ELSE << >> ] ]

\* lines 34-37 and 53-57: round robin over the shuffled array
DistributeUsers(userArray, breakoutRooms) ==
  [ k \in 1 .. Len(breakoutRooms) |->
      [ room |-> breakoutRooms[k],
        users |-> SelectSeq(userArray, LAMBDA u :
                    \E x \in 1 .. Len(userArray) :
                       userArray[x] = u /\ (x - 1) % Len(breakoutRooms) = k - 1) ] ]

\* a shuffle that runs on the caller's array
ShuffledInPlace(users, userArray) == userArray

\* lines 40-42: `[...users]`, the shuffle runs on the copy `userArray`; the
\* caller's array after the call
CallerArray(users, userArray) == users

PlanPairs(plan) ==
  UNION { { << u, plan[k].room >> : u \in Range(plan[k].users) } :
            k \in 1 .. Len(plan) }

\* --------------------------------------------------- executeDistribute
\* handleDistributeCommand up to the deferred reply
DispatchDistribute(p) ==
  /\ Idle(p)
  /\ CanDispatch
  /\ \E f \in BOOLEAN, facilitators \in SUBSET Members :
       proc' = [ proc EXCEPT ![p] =
                 LET r == Observe([ IdleProc EXCEPT !.cmd = "distribute", !.force = f ])
                 IN IF Blocked("distribute") THEN Finish(r, "blocked")
                    ELSE IF Len(GetRooms(sessions)) = 0 THEN Finish(r, "no_rooms")
                    ELSE IF MembersIn(MainRoom) = {} THEN Finish(r, "no_users")
                    ELSE [ r EXCEPT !.pc = "defer",
                                    !.breakoutRooms = GetRooms(sessions),
                                    !.users = SetToSeq(MembersIn(MainRoom) \ facilitators) ] ]
  /\ UNCHANGED << storeVars, inMemoryState, disk, nextOid, detached, sessions, channels,
                  nextChannel, voice, failures, crashes, outOfBand, audit,
                  timerVars >>

MoveKey(m, room) == StepKey("move_user", m, room)

\* distribution.ts: hasActiveDistribution
HasActiveDistribution(s) ==
  /\ GetMainRoom(s) # NoChannel
  /\ Len(GetRooms(s)) > 0
  /\ \E k \in 1 .. Len(GetRooms(s)) : MembersIn(GetRooms(s)[k]) # {}

\* lines 157-218: the moves issued for the plan, given the steps fetched
MovesToIssue(plan, steps) ==
  { pr \in PlanPairs(plan) :
      /\ pr[2] \in DOMAIN channels
      /\ ~ StepRecorded(steps, MoveKey(pr[1], pr[2])) }

AlreadyMoved(plan, steps) ==
  { pr \in PlanPairs(plan) :
      /\ pr[2] \in DOMAIN channels
      /\ StepRecorded(steps, MoveKey(pr[1], pr[2])) }

\* lines 150-231 from the room loop to the next await
DistIssue(p, r) ==
  LET steps == StepsVia(r.steps)
      issue == MovesToIssue(r.distribution, steps)
      \* moveUser throws at once for a member who is in no voice channel
      rejected == { pr \in issue : voice[pr[1]] = NoChannel }
      live == GetCompletedSteps(inMemoryState, GuildId)
      r1 == [ r EXCEPT !.pending = issue \ rejected,
                       !.moveFailed = rejected,
                       !.moveSuccess = AlreadyMoved(r.distribution, steps),
                       !.moves = @ + Cardinality(issue \ rejected) ]
  IN /\ audit' = [ audit EXCEPT !.dup =
            IF \E pr \in issue \ rejected : MoveKey(pr[1], pr[2]) \in DOMAIN live
            THEN @ \cup { "move" } ELSE @ ]
     /\ proc' = [ proc EXCEPT ![p] = [ r1 EXCEPT !.pc = "dist_moving" ] ]

\* lines 140-148
DistMain(p, r0) ==
  LET r == [ r0 EXCEPT !.steps = GetCurrentOperation(inMemoryState, GuildId).oid ]
  IN /\ sessions' = SetMainRoom(sessions, MainRoom)
     /\ IF ~ StepRecorded(StepsVia(r.steps), StepKey("set_main_room", 0, 0))
        THEN /\ Persist(UpdateProgress(inMemoryState, GuildId,
                                       StepKey("set_main_room", 0, 0), NoData))
             /\ proc' = [ proc EXCEPT ![p] = [ r EXCEPT !.pc = "dist_main_saved" ] ]
             /\ UNCHANGED audit
        ELSE /\ DistIssue(p, r)
             /\ UNCHANGED << inMemoryState, disk, timerVars >>

\* lines 43-133, after the reply was deferred; the handler first calls
\* distributeUsers (command lines 385-400)
DistEntry(p) ==
  LET currentOp == GetCurrentOperation(inMemoryState, GuildId)
      isResuming == currentOp.type = "distribute"
  IN /\ proc[p].pc = "defer" /\ proc[p].cmd = "distribute"
     /\ \E userArray \in Shuffles(proc[p].users) :
          LET distribution == DistributeUsers(userArray, proc[p].breakoutRooms)
              r == [ proc[p] EXCEPT !.isResuming = isResuming,
                       !.distribution = IF isResuming THEN currentOp.params.distribution
                                        ELSE distribution ]
          IN IF isResuming
             THEN /\ DistMain(p, r)
                  /\ UNCHANGED << nextOid, detached, timerVars >>
             ELSE IF HasActiveDistribution(sessions) /\ ~ r.force
             THEN /\ proc' = [ proc EXCEPT ![p] = Finish(r, "already_distributed") ]
                  /\ UNCHANGED << inMemoryState, disk, nextOid, detached, sessions, audit,
                                  timerVars >>
             ELSE /\ Persist(StartOperation(inMemoryState, GuildId, "distribute",
                               [ NoParams EXCEPT !.mainRoomId = MainRoom,
                                                 !.distribution = distribution ], nextOid))
                  /\ detached' = StartDetached(inMemoryState)
                  /\ nextOid' = nextOid + 1
                  /\ proc' = [ proc EXCEPT ![p] = [ r EXCEPT !.pc = "dist_started" ] ]
                  /\ UNCHANGED << sessions, audit, timerVars >>
     /\ UNCHANGED << storeVars, channels, nextChannel, voice, failures, crashes, outOfBand,
                     timerVars >>

\* startOperation's save settled
DistStarted(p) ==
  /\ proc[p].pc = "dist_started"
  /\ DistMain(p, proc[p])
  /\ UNCHANGED << storeVars, nextOid, detached, channels, nextChannel, voice, failures,
                  crashes, outOfBand, timerVars >>

\* the save of set_main_room settled
DistMainSaved(p) ==
  /\ proc[p].pc = "dist_main_saved"
  /\ DistIssue(p, proc[p])
  /\ UNCHANGED << storeVars, inMemoryState, disk, nextOid, detached, sessions, channels,
                  nextChannel, voice, failures, crashes, outOfBand, timerVars >>

\* one of the concurrently issued member.voice.setChannel(room) settles
DistMoveCall(p, faulty) ==
  /\ proc[p].pc = "dist_moving"
  /\ \E pr \in proc[p].pending :
       \/ /\ voice[pr[1]] # NoChannel /\ pr[2] \in DOMAIN channels
          /\ voice' = [ voice EXCEPT ![pr[1]] = pr[2] ]
          /\ proc' = [ proc EXCEPT ![p] = [ @ EXCEPT !.pending = @ \ { pr },
                                                     !.roomMembers = Append(@, pr) ] ]
          /\ UNCHANGED failures
       \/ /\ (faulty /\ failures < MaxFailures)
             \/ voice[pr[1]] = NoChannel \/ pr[2] \notin DOMAIN channels
          /\ failures' = IF voice[pr[1]] # NoChannel /\ pr[2] \in DOMAIN channels
                         THEN failures + 1 ELSE failures
          /\ proc' = [ proc EXCEPT ![p] = [ @ EXCEPT !.pending = @ \ { pr },
                                                     !.moveFailed = @ \cup { pr },
                                                     !.extFailed = TRUE,
                     !.failedCall = "move" ] ]
          /\ UNCHANGED voice
  /\ UNCHANGED << storeVars, inMemoryState, disk, nextOid, detached, sessions, channels,
                  nextChannel, crashes, outOfBand, audit, timerVars >>

\* lines 205-208: the continuation of a settled move (in settlement order)
DistMoveRet(p) ==
  LET r == proc[p]
      pr == Head(r.roomMembers)
  IN /\ r.pc = "dist_moving"
     /\ r.roomMembers # << >>
     /\ proc' = [ proc EXCEPT ![p] = [ r EXCEPT !.roomMembers = Tail(@),
                                                !.moveSuccess = @ \cup { pr } ] ]
     /\ Persist(UpdateProgress(inMemoryState, GuildId, MoveKey(pr[1], pr[2]), NoData))
     /\ UNCHANGED << storeVars, nextOid, detached, sessions, channels, nextChannel, voice,
                     failures, crashes, outOfBand, audit, timerVars >>

\* a Promise.all over move promises that reject: the batch ends in the catch
DistAbortsOnFailedMove(p) ==
  /\ proc[p].pc = "dist_moving"
  /\ proc[p].pending = {} /\ proc[p].roomMembers = << >>
  /\ proc' = [ proc EXCEPT ![p] =
                 Finish(@, IF proc[p].moveFailed = {} THEN "success" ELSE "error") ]
  /\ UNCHANGED << storeVars, inMemoryState, disk, nextOid, detached, sessions,
                  channels, nextChannel, voice, failures, crashes, outOfBand, audit,
                  timerVars >>

\* a distribution_complete recorded while moves are still in flight
DistMarksEarly(p) ==
  /\ proc[p].pc = "dist_moving"
  /\ proc' = [ proc EXCEPT ![p] = [ @ EXCEPT !.pc = "dist_marked" ] ]
  /\ Persist(UpdateProgress(inMemoryState, GuildId,
               StepKey("distribution_complete", 0, 0),
               [ NoData EXCEPT !.successful = Cardinality(proc[p].moveSuccess),
                               !.failed = Cardinality(proc[p].moveFailed) ]))
  /\ UNCHANGED << storeVars, nextOid, detached, sessions, channels, nextChannel,
                  voice, failures, crashes, outOfBand, audit, timerVars >>

\* lines 225-231: Promise.all settled
DistAllSettled(p) ==
  LET r == proc[p]
  IN /\ r.pc = "dist_moving"
     /\ r.pending = {} /\ r.roomMembers = << >>
     /\ proc' = [ proc EXCEPT ![p] = [ r EXCEPT !.pc = "dist_marked" ] ]
     /\ Persist(UpdateProgress(inMemoryState, GuildId,
                  StepKey("distribution_complete", 0, 0),
                  [ NoData EXCEPT !.successful = Cardinality(r.moveSuccess),
                                  !.failed = Cardinality(r.moveFailed) ]))
     /\ UNCHANGED << storeVars, nextOid, detached, sessions, channels, nextChannel, voice,
                     failures, crashes, outOfBand, audit, timerVars >>

\* line 234
DistComplete(p) ==
  /\ proc[p].pc = "dist_marked"
  /\ Persist(CompleteOperation(inMemoryState, GuildId))
  /\ proc' = [ proc EXCEPT ![p] = [ @ EXCEPT !.pc = "dist_complete" ] ]
  /\ UNCHANGED << storeVars, nextOid, detached, sessions, channels, nextChannel, voice,
                  failures, crashes, outOfBand, audit, timerVars >>

\* lines 236-240
DistReturn(p) ==
  /\ proc[p].pc = "dist_complete"
  /\ proc' = [ proc EXCEPT ![p] = Finish(@, "success") ]
  /\ UNCHANGED << storeVars, inMemoryState, disk, nextOid, detached, sessions, channels,
                  nextChannel, voice, failures, crashes, outOfBand, audit,
                  timerVars >>

\* ------------------------------------- DistributeOperation (class-based)
\* commands/main/breakout.ts with DistributeOperation.execute, from the
\* command up to the first await of I/O.  The handler has no deferred reply;
\* on resume (lines 29-30) the executor keeps the plan its caller passed
DistributeOperationExecute(p) ==
  LET currentOp == GetCurrentOperation(inMemoryState, GuildId)
      isResuming == currentOp.type = "distribute"
      r0 == Observe([ IdleProc EXCEPT !.cmd = "distribute" ])
  IN /\ Idle(p)
     /\ isResuming \/ CanDispatch
     /\ \E f \in BOOLEAN, facilitators \in SUBSET Members :
          IF Blocked("distribute") \/ Len(GetRooms(sessions)) = 0
             \/ MembersIn(MainRoom) = {}
          THEN /\ proc' = [ proc EXCEPT ![p] =
                   Finish(r0, IF Blocked("distribute") THEN "blocked"
                              ELSE IF Len(GetRooms(sessions)) = 0 THEN "no_rooms"
                              ELSE "no_users") ]
               /\ UNCHANGED << inMemoryState, disk, nextOid, detached, sessions,
                               audit, timerVars >>
          ELSE \E userArray \in Shuffles(SetToSeq(MembersIn(MainRoom) \ facilitators)) :
                 LET distribution == DistributeUsers(userArray, GetRooms(sessions))
                     r == [ r0 EXCEPT !.force = f, !.isResuming = isResuming,
                                      !.breakoutRooms = GetRooms(sessions),
                                      !.users = userArray,
                                      !.distribution = distribution ]
                 IN IF isResuming
                    THEN /\ DistMain(p, r)
                         /\ UNCHANGED << nextOid, detached, timerVars >>
                    ELSE IF HasActiveDistribution(sessions) /\ ~ f
                    THEN /\ proc' = [ proc EXCEPT ![p] =
                                        Finish(r, "already_distributed") ]
                         /\ UNCHANGED << inMemoryState, disk, nextOid, detached,
                                         sessions, audit, timerVars >>
                    ELSE /\ Persist(StartOperation(inMemoryState, GuildId, "distribute",
                                      [ NoParams EXCEPT !.mainRoomId = MainRoom,
                                                        !.distribution = distribution ],
                                      nextOid))
                         /\ detached' = StartDetached(inMemoryState)
                         /\ nextOid' = nextOid + 1
                         /\ proc' = [ proc EXCEPT ![p] = [ r EXCEPT !.pc = "dist_started" ] ]
                         /\ UNCHANGED << sessions, audit, timerVars >>
     /\ UNCHANGED << storeVars, channels, nextChannel, voice, failures, crashes,
                     outOfBand, timerVars >>

\* replyOrEdit(interaction, result.message) settles: the invocation is over
Reply(p) ==
  /\ proc[p].pc = "done"
  /\ proc' = [ proc EXCEPT ![p] = IdleProc ]
  /\ UNCHANGED << storeVars, inMemoryState, disk, nextOid, detached, sessions, channels,
                  nextChannel, voice, failures, crashes, outOfBand, audit,
                  timerVars >>

\* ------------------------------------------------------- environment
\* the process is killed and restarted: memory is lost, the file is loaded
Crash ==
  /\ crashes < MaxCrashes
  /\ \E p \in Procs : ~ Idle(p)
  /\ crashes' = crashes + 1
  /\ proc' = [ p \in Procs |-> IdleProc ]
  /\ sessions' = NoSession
  /\ inMemoryState' = disk.data
  /\ detached' = << >>
  /\ UNCHANGED << storeVars, disk, nextOid, channels, nextChannel, voice, failures,
                  outOfBand, audit, timerVars >>

\* a moderator deletes a breakout channel by hand
OutOfBandDelete ==
  /\ outOfBand < MaxOutOfBand
  /\ \E c \in DOMAIN channels : DeleteChannel(c)
  /\ outOfBand' = outOfBand + 1
  /\ UNCHANGED << storeVars, inMemoryState, disk, nextOid, detached, sessions,
                  nextChannel, proc, failures, crashes, audit, timerVars >>

\* ------------------------------------------- Operation Store (timer data)
NoTimer == [ totalMinutes |-> 0, startTime |-> 0, breakoutRooms |-> << >>,
             fiveMinSent |-> FALSE ]

SetTimerData(state, g, timerData) ==
  [ k \in DOMAIN state \cup { TimerKey(g) } |->
      IF k = TimerKey(g) THEN timerData ELSE state[k] ]

GetTimerData(state, g) ==
  IF TimerKey(g) \in DOMAIN state THEN state[TimerKey(g)] ELSE NoTimer

ClearTimerData(state, g) ==
  [ k \in DOMAIN state \ { TimerKey(g) } |-> state[k] ]

\* --------------------------------- Operation Store (calls, load and save)
StoreGuilds == { GuildId }
\* the guilds of calls made for more than one guild
UpsertGuilds == { GuildId, GuildId + 1 }
StoreKeys == { StepKey("create_room", 2, 0) }
StoreTypes == { "create" }
StoreTimer == [ NoTimer EXCEPT !.totalMinutes = 10 ]

Mutators == { "startOperation", "updateProgress", "completeOperation",
              "setTimerData", "clearTimerData" }
Readers == { "getCurrentOperation", "getCompletedSteps",
             "hasOperationInProgress", "getTimerData" }

NoStoreAudit ==
  [ expected |-> << >>, touched |-> {}, loads |-> 0,
    loadAfterMutation |-> FALSE, readFailures |-> 0, writeFailures |-> 0 ]

\* the store of an executor run: initialized, nothing queued
StoreIdle ==
  /\ initialized = TRUE
  /\ saveQueue = 0
  /\ calls = << >>
  /\ storeAudit = NoStoreAudit

NewCall(op, g, type, key) ==
  [ pc |-> "new", op |-> op, g |-> g, type |-> type, key |-> key, prev |-> 0,
    seen |-> NoFile, snapshot |-> << >>, ret |-> FALSE, fresh |-> TRUE,
    wrote |-> "none", oid |-> 0, superseded |-> FALSE, durable |-> FALSE ]

\* the key of the state map a call reads or mutates
KeyOf(r) ==
  IF r.op \in { "setTimerData", "clearTimerData", "getTimerData" }
  THEN TimerKey(r.g) ELSE GuildKey(r.g)

\* the synchronous body of a mutating call, between `await initialize()`
\* and `await saveState()`
Mutate(state, r, oid) ==
  CASE r.op = "startOperation" ->
         StartOperation(state, r.g, r.type, NoParams, oid)
    [] r.op = "updateProgress" -> UpdateProgress(state, r.g, r.key, NoData)
    [] r.op = "completeOperation" -> CompleteOperation(state, r.g)
    [] r.op = "setTimerData" -> SetTimerData(state, r.g, StoreTimer)
    [] r.op = "clearTimerData" -> ClearTimerData(state, r.g)
    [] OTHER -> state

\* whether the body reaches saveState (the early returns do not)
Saves(state, r) ==
  CASE r.op = "updateProgress" -> UpdateProgressOk(state, r.g)
    [] r.op = "completeOperation" -> GetCurrentOperation(state, r.g) # NoOp
    [] OTHER -> r.op \in Mutators

\* the value a read returns
Read(state, r) ==
  CASE r.op = "getCurrentOperation" -> << GetCurrentOperation(state, r.g) >>
    [] r.op = "getCompletedSteps" -> << GetCompletedSteps(state, r.g) >>
    [] r.op = "hasOperationInProgress" ->
         << HasOperationInProgress(state, r.g) >>
    [] OTHER -> << GetTimerData(state, r.g) >>

\* a save job without the try/catch: a failed write rejects the promise the
\* next save chains on
JobFulfilledOnSuccess(wrote) == wrote = "ok"

\* the try/catch of the save job and `nextSave.catch(() => {})`: the promise
\* the next save chains on is fulfilled whatever the write did
JobFulfilled(wrote) == wrote \in { "ok", "failed" }

\* the promise held in saveQueue lets the chained job run
Settled(cs, j) == j = 0 \/ (cs[j].pc = "done" /\ JobFulfilled(cs[j].wrote))

\* a job whose turn has come and that has not yet run (a pending microtask)
MicroPending == \E c \in DOMAIN calls : calls[c].pc = "job_ready"

PutCall(c, r) ==
  IF c \in DOMAIN calls THEN [ calls EXCEPT ![c] = r ] ELSE Append(calls, r)

\* what the mutations applied so far left under the keys they touched
Expect(aud, state, k) ==
  [ aud EXCEPT
      !.touched = @ \cup { k },
      !.expected = [ x \in (DOMAIN @ \cup { k }) \ (IF k \in DOMAIN state
                                                   THEN {} ELSE { k }) |->
                       IF x = k THEN state[k] ELSE @[x] ] ]

\* a read is fresh when it returns what the last mutation of its key left
Fresh(state, aud, r) ==
  KeyOf(r) \in aud.touched => Read(state, r) = Read(aud.expected, r)

\* the outcomes of mkdir + loadState for a read of the file issued when the
\* file was `seen`: the content at issue or at completion, a parse error on
\* an unparseable or half-written file, or an injected I/O error
LoadOutcomes(seen) ==
  { [ ok |-> f.status # "corrupt", state |-> f.data, fault |-> FALSE ] :
      f \in { seen, disk } }
  \cup { [ ok |-> FALSE, state |-> << >>, fault |-> FALSE ] :
           c \in { d \in DOMAIN calls : calls[d].pc = "writing" } }
  \cup { [ ok |-> FALSE, state |-> << >>, fault |-> TRUE ] :
           n \in { storeAudit.readFailures } \cap 0 .. MaxReadFailures - 1 }

\* a loadState that empties the state whenever it fails
LoadedOrEmptied(o) == o.state

\* loadState: `inMemoryState = JSON.parse(data)` or `inMemoryState = {}`
Loaded(o) == IF o.ok THEN o.state ELSE inMemoryState

LoadAudit(o) ==
  [ storeAudit EXCEPT
      !.loads = @ + (IF o.ok THEN 1 ELSE 0),
      !.loadAfterMutation = @ \/ (o.ok /\ storeAudit.touched # {}),
      !.readFailures = @ + (IF o.fault THEN 1 ELSE 0) ]

\* call c replaces or completes the current operation of its guild: the
\* steps recorded in it by earlier calls are no longer current
Supersede(cs, c) ==
  IF cs[c].op \notin { "startOperation", "completeOperation" } THEN cs
  ELSE [ d \in DOMAIN cs |->
           IF d # c /\ cs[d].op = "updateProgress" /\ cs[d].g = cs[c].g
              /\ cs[d].ret
           THEN [ cs[d] EXCEPT !.superseded = TRUE ] ELSE cs[d] ]

\* the body of a store call after `await initialize()`, up to saveState()
Body(c, r, state, aud, init) ==
  /\ initialized' = init
  /\ inMemoryState' = Mutate(state, r, c)
  /\ IF r.op \in Readers
     THEN /\ calls' = PutCall(c, [ r EXCEPT !.pc = "done", !.seen = NoFile,
                                            !.fresh = Fresh(state, aud, r) ])
          /\ saveQueue' = saveQueue
          /\ storeAudit' = aud
     ELSE IF ~ Saves(state, r)
     THEN /\ calls' = PutCall(c, [ r EXCEPT !.pc = "done", !.seen = NoFile ])
          /\ saveQueue' = saveQueue
          /\ storeAudit' = aud
     ELSE /\ calls' = Supersede(PutCall(c, [ r EXCEPT
                 !.pc = IF Settled(calls, saveQueue) THEN "job_ready"
                        ELSE "queued",
                 !.seen = NoFile, !.prev = saveQueue, !.ret = TRUE,
                 !.oid = IF r.op = "updateProgress"
                         THEN GetCurrentOperation(state, r.g).oid ELSE 0 ]),
               c)
          /\ saveQueue' = c
          /\ storeAudit' = Expect(aud, Mutate(state, r, c), KeyOf(r))

\* a store function is called: `await initialize()` returns at once when
\* initialized, otherwise it starts mkdir and readFile
CallOf(ops, guilds) ==
  /\ Len(calls) < MaxCalls
  /\ \E op \in ops, g \in guilds, type \in StoreTypes, key \in StoreKeys :
       LET r == NewCall(op, g, IF op = "startOperation" THEN type ELSE "none",
                        IF op = "updateProgress" THEN key
                        ELSE StepKey("none", 0, 0))
           c == Len(calls) + 1
       IN IF initialized
          THEN /\ Body(c, r, inMemoryState, storeAudit, TRUE)
               /\ UNCHANGED disk
          ELSE /\ calls' = Append(calls, [ r EXCEPT !.pc = "loading",
                                                    !.seen = disk ])
               /\ UNCHANGED << inMemoryState, disk, initialized, saveQueue,
                               storeAudit, timerVars >>
  /\ UNCHANGED execVars

Call == CallOf(Mutators \cup Readers, StoreGuilds)

\* the initialize() a call awaits returns; the call's body runs
InitializeReturns(c) ==
  /\ calls[c].pc = "loading"
  /\ ~ MicroPending
  /\ \E o \in LoadOutcomes(calls[c].seen) :
       Body(c, calls[c], Loaded(o), LoadAudit(o), initialized \/ o.ok)
  /\ UNCHANGED << disk, execVars >>

\* the queued save job runs: `await initialize()` then writeFile of the
\* state serialized at that moment
SaveJobStarts(c) ==
  /\ calls[c].pc = "job_ready"
  /\ calls' = [ calls EXCEPT ![c] =
        IF initialized
        THEN [ @ EXCEPT !.pc = "writing", !.snapshot = inMemoryState ]
        ELSE [ @ EXCEPT !.pc = "job_loading", !.seen = disk ] ]
  /\ UNCHANGED << inMemoryState, disk, initialized, saveQueue, storeAudit,
                  execVars >>

\* the initialize() of a save job returns; writeFile starts
SaveJobInitialized(c) ==
  /\ calls[c].pc = "job_loading"
  /\ ~ MicroPending
  /\ \E o \in LoadOutcomes(calls[c].seen) :
       /\ inMemoryState' = Loaded(o)
       /\ initialized' = (initialized \/ o.ok)
       /\ storeAudit' = LoadAudit(o)
       /\ calls' = [ calls EXCEPT ![c] =
            [ @ EXCEPT !.pc = "writing", !.seen = NoFile,
                       !.snapshot = Loaded(o) ] ]
  /\ UNCHANGED << disk, saveQueue, execVars >>

\* the operation an updateProgress call wrote to is the current operation
\* of its guild in `state`, with the step of the call recorded
HoldsStep(state, r) ==
  /\ r.op = "updateProgress"
  /\ GetCurrentOperation(state, r.g).oid = r.oid
  /\ r.key \in DOMAIN GetCompletedSteps(state, r.g)

\* writeFile returns: the file holds the serialized state, or the write
\* failed and left the file as it was or unparseable; the call returns and
\* the job chained on this one gets its turn
WriteFileReturns(c) ==
  /\ calls[c].pc = "writing"
  /\ ~ MicroPending
  /\ \E file \in { FileWith(calls[c].snapshot), disk, CorruptFile } :
       LET ok == file = FileWith(calls[c].snapshot)
           done == [ calls[c] EXCEPT
                      !.pc = "done", !.snapshot = << >>,
                      !.wrote = IF ok THEN "ok" ELSE "failed",
                      !.durable = HoldsStep(file.data, calls[c]) ]
       IN /\ ok \/ storeAudit.writeFailures < MaxWriteFailures
          /\ disk' = file
          /\ storeAudit' = [ storeAudit EXCEPT !.writeFailures =
                               @ + (IF ok THEN 0 ELSE 1) ]
          /\ calls' = [ d \in DOMAIN calls |->
               IF d = c THEN done
               ELSE IF calls[d].pc = "queued" /\ calls[d].prev = c
                       /\ JobFulfilled(done.wrote)
               THEN [ calls[d] EXCEPT !.pc = "job_ready" ]
               ELSE calls[d] ]
  /\ UNCHANGED << inMemoryState, initialized, saveQueue, execVars >>

InitExec ==
  /\ inMemoryState = << >>
  /\ disk = FileWith(<< >>)
  /\ StoreIdle
  /\ nextOid = 1
  /\ detached = << >>
  /\ sessions = NoSession
  /\ channels = << >>
  /\ nextChannel = 1
  /\ voice = [ m \in Members |-> MainRoom ]
  /\ proc = [ p \in Procs |-> IdleProc ]
  /\ failures = 0
  /\ crashes = 0
  /\ outOfBand = 0
  /\ audit = [ dup |-> {}, dupLive |-> FALSE, endMoved |-> 0 ]
  /\ now = 0
  /\ monitors = << >>

Step(p, faulty) ==
  \/ DispatchCreate(p)
  \/ CreateEntry(p)
  \/ CreateCleanup(p, faulty)
  \/ CreateStarted(p)
  \/ CreateRoomCall(p, faulty)
  \/ CreateRoomRet(p)
  \/ CreateSaved(p)
  \/ CreateStoreRooms(p)
  \/ CreateReturn(p)
  \/ DispatchEnd(p)
  \/ EndEntry(p)
  \/ EndStarted(p)
  \/ EndMoveCall(p, faulty)
  \/ EndMoveRet(p)
  \/ EndMoveSaved(p)
  \/ EndDeleteCall(p, faulty)
  \/ EndDeleteRet(p)
  \/ EndDeleteSaved(p)
  \/ EndProcessed(p)
  \/ EndSkipped(p)
  \/ EndClear(p)
  \/ EndReturn(p)
  \/ DispatchDistribute(p)
  \/ DistEntry(p)
  \/ DistStarted(p)
  \/ DistMainSaved(p)
  \/ DistMoveCall(p, faulty)
  \/ DistMoveRet(p)
  \/ DistAllSettled(p)
  \/ DistComplete(p)
  \/ DistReturn(p)
  \/ Reply(p)

Next == Step(1, FALSE) \/ Crash \/ OutOfBandDelete

Spec == InitExec /\ [][Next]_vars

\* one invocation at a time, platform calls may fail, no restart
NextFault == Step(1, TRUE)

SpecFault == InitExec /\ [][NextFault]_vars

\* two command invocations of the guild in flight at once, no restart
NextConc == \E p \in Procs : Step(p, FALSE)

\* the store after a completed `/breakout create n` with channels 1..n
RECURSIVE CreatedSteps(_, _)
CreatedSteps(state, n) ==
  IF n = 0 THEN state
  ELSE UpdateProgress(CreatedSteps(state, n - 1), GuildId, CreateKey(n),
                      [ NoData EXCEPT !.channelId = n ])

StateAfterCreate(n) ==
  CompleteOperation(
    UpdateProgress(
      CreatedSteps(StartOperation(<< >>, GuildId, "create",
                                  [ NoParams EXCEPT !.numRooms = n ], 1), n),
      GuildId, StepKey("store_rooms", 0, 0),
      [ NoData EXCEPT !.roomIds = [ k \in 1 .. n |-> k ] ]),
    GuildId)

\* the rooms were created by an earlier, completed create command
InitConc ==
  \E n \in 1 .. MaxRooms :
    /\ inMemoryState = StateAfterCreate(n)
    /\ disk = FileWith(StateAfterCreate(n))
    /\ StoreIdle
    /\ nextOid = 2
    /\ detached = << >>
    /\ sessions = StoreRooms(NoSession, [ k \in 1 .. n |-> k ])
    /\ channels = [ k \in 1 .. n |-> k ]
    /\ nextChannel = n + 1
    /\ voice = [ m \in Members |-> MainRoom ]
    /\ proc = [ p \in Procs |-> IdleProc ]
    /\ failures = 0
    /\ crashes = 0
    /\ outOfBand = 0
    /\ audit = [ dup |-> {}, dupLive |-> FALSE, endMoved |-> 0 ]
    /\ now = 0
    /\ monitors = << >>

SpecConc == InitConc /\ [][NextConc]_vars

\* the store on a cold start: nothing loaded, the file missing, unparseable,
\* or left by a run that was killed during a create operation
StoredCreate ==
  UpdateProgress(StartOperation(<< >>, GuildId, "create", NoParams,
                                MaxCalls + 1),
                 GuildId, StepKey("create_room", 1, 0), NoData)

InitStore ==
  /\ inMemoryState = << >>
  /\ disk \in { NoFile, CorruptFile, FileWith(StoredCreate) }
  /\ initialized = FALSE
  /\ saveQueue = 0
  /\ calls = << >>
  /\ storeAudit = NoStoreAudit
  /\ nextOid = 1
  /\ detached = << >>
  /\ sessions = NoSession
  /\ channels = << >>
  /\ nextChannel = 1
  /\ voice = [ m \in Members |-> MainRoom ]
  /\ proc = [ p \in Procs |-> IdleProc ]
  /\ failures = 0
  /\ crashes = 0
  /\ outOfBand = 0
  /\ audit = [ dup |-> {}, dupLive |-> FALSE, endMoved |-> 0 ]
  /\ now = 0
  /\ monitors = << >>

NextStore ==
  \/ Call
  \/ \E c \in DOMAIN calls : InitializeReturns(c)
  \/ \E c \in DOMAIN calls : SaveJobStarts(c)
  \/ \E c \in DOMAIN calls : SaveJobInitialized(c)
  \/ \E c \in DOMAIN calls : WriteFileReturns(c)

SpecStore == InitStore /\ [][NextStore]_vars

\* the store on a cold start with commands of two guilds arriving together
NextGuilds ==
  \/ CallOf({ "startOperation", "setTimerData", "getCurrentOperation" },
            UpsertGuilds)
  \/ \E c \in DOMAIN calls : InitializeReturns(c)
  \/ \E c \in DOMAIN calls : SaveJobStarts(c)
  \/ \E c \in DOMAIN calls : SaveJobInitialized(c)
  \/ \E c \in DOMAIN calls : WriteFileReturns(c)

SpecGuilds == InitStore /\ [][NextGuilds]_vars

\* ------------------------------ Operation Store (awaited calls, in turn)
\* the store functions called one after the other, each awaited, on a store
\* that is loaded and whose writes succeed; `calls` logs the calls made
UpsertKeys == { StepKey("create_room", 1, 0), StepKey("create_room", 2, 0) }
UpsertData == { [ NoData EXCEPT !.channelId = c ] : c \in 1 .. 2 }
UpsertParams ==
  [ create |-> [ NoParams EXCEPT !.numRooms = 2 ],
    end |-> [ NoParams EXCEPT !.roomIds = << 1 >> ] ]

NoCall ==
  [ op |-> "none", g |-> 0, type |-> "none", params |-> NoParams,
    key |-> StepKey("none", 0, 0), data |-> NoData, ret |-> TRUE,
    before |-> << >> ]

LogCall(c) == Append(calls, [ c EXCEPT !.before = inMemoryState ])

\* a history of n completed operations, oldest first
FilledHistory(n) ==
  [ k \in 1 .. n |->
      [ FreshOperation(MaxCalls + 1 + k, "create", NoParams) EXCEPT
          !.completed = TRUE ] ]

\* the stores a run may have left: empty, a create operation in progress or
\* completed, a history one short of the cap or at the cap with an operation
\* in progress, and a second guild holding an operation and a timer
InitUpsert ==
  /\ inMemoryState \in
       { << >>, StoredCreate, CompleteOperation(StoredCreate, GuildId),
         SetTimerData(StartOperation(StoredCreate, GuildId + 1, "end",
                                     UpsertParams.end, MaxCalls + 2),
                      GuildId + 1, StoreTimer) }
       \cup { PutGuild(StoredCreate, GuildId,
                       [ GuildStateOf(StoredCreate, GuildId) EXCEPT
                           !.history = FilledHistory(n) ]) :
                n \in { HISTORY_MAX - 1, HISTORY_MAX } }
  /\ disk = IF inMemoryState = << >> THEN NoFile ELSE FileWith(inMemoryState)
  /\ initialized = TRUE
  /\ saveQueue = 0
  /\ calls = << >>
  /\ storeAudit = NoStoreAudit
  /\ nextOid = 1
  /\ detached = << >>
  /\ sessions \in { [ g \in UpsertGuilds |-> NoSession ],
                    [ g \in UpsertGuilds |->
                        IF g = GuildId THEN NoSession
                        ELSE SetMainRoom(StoreRooms(NoSession, << 1 >>),
                                         MainRoom) ] }
  /\ channels = << >>
  /\ nextChannel = 1
  /\ voice = [ m \in Members |-> MainRoom ]
  /\ proc = [ p \in Procs |-> IdleProc ]
  /\ failures = 0
  /\ crashes = 0
  /\ outOfBand = 0
  /\ audit = [ dup |-> {}, dupLive |-> FALSE, endMoved |-> 0 ]
  /\ now = 0
  /\ monitors = << >>

\* `await startOperation(guildId, type, params)`
AwaitStartOperation ==
  /\ Len(calls) < MaxCalls
  /\ \E g \in UpsertGuilds, type \in DOMAIN UpsertParams :
       /\ inMemoryState' =
            StartOperation(inMemoryState, g, type, UpsertParams[type], nextOid)
       /\ calls' = LogCall([ NoCall EXCEPT !.op = "startOperation", !.g = g,
                                           !.type = type,
                                           !.params = UpsertParams[type] ])
  /\ nextOid' = nextOid + 1
  /\ disk' = FileWith(inMemoryState')
  /\ UNCHANGED << initialized, saveQueue, storeAudit, detached, sessions,
                  channels, nextChannel, voice, proc, failures, crashes,
                  outOfBand, audit, timerVars >>

\* `await updateProgress(guildId, step, data)`
AwaitUpdateProgress ==
  /\ Len(calls) < MaxCalls
  /\ \E g \in UpsertGuilds, key \in UpsertKeys, data \in UpsertData :
       /\ inMemoryState' = UpdateProgress(inMemoryState, g, key, data)
       /\ disk' = IF UpdateProgressOk(inMemoryState, g)
                  THEN FileWith(inMemoryState') ELSE disk
       /\ calls' = LogCall([ NoCall EXCEPT
                               !.op = "updateProgress", !.g = g, !.key = key,
                               !.data = data,
                               !.ret = UpdateProgressOk(inMemoryState, g) ])
  /\ UNCHANGED << initialized, saveQueue, storeAudit, execVars >>

\* `await completeOperation(guildId)`
AwaitCompleteOperation ==
  /\ Len(calls) < MaxCalls
  /\ \E g \in UpsertGuilds :
       /\ inMemoryState' = CompleteOperation(inMemoryState, g)
       /\ disk' = IF GetCurrentOperation(inMemoryState, g) # NoOp
                  THEN FileWith(inMemoryState') ELSE disk
       /\ calls' = LogCall([ NoCall EXCEPT
                               !.op = "completeOperation", !.g = g,
                               !.ret = GetCurrentOperation(inMemoryState, g)
                                         # NoOp ])
  /\ UNCHANGED << initialized, saveQueue, storeAudit, execVars >>

\* `await setTimerData(guildId, timerData)`, `await clearTimerData(guildId)`
AwaitTimerData ==
  /\ Len(calls) < MaxCalls
  /\ \E g \in UpsertGuilds, op \in { "setTimerData", "clearTimerData" } :
       /\ inMemoryState' =
            IF op = "setTimerData"
            THEN SetTimerData(inMemoryState, g, StoreTimer)
            ELSE ClearTimerData(inMemoryState, g)
       /\ calls' = LogCall([ NoCall EXCEPT !.op = op, !.g = g ])
  /\ disk' = FileWith(inMemoryState')
  /\ UNCHANGED << initialized, saveQueue, storeAudit, execVars >>

\* storeRooms(guildId, rooms), setMainRoom(guildId, mainRoom),
\* clearSession(guildId) on the `sessions` map
SessionCall ==
  /\ Len(calls) < MaxCalls
  /\ \E g \in UpsertGuilds, op \in { "storeRooms", "setMainRoom",
                                     "clearSession" } :
       /\ sessions' =
            [ sessions EXCEPT ![g] =
                CASE op = "storeRooms" -> StoreRooms(@, << 2 >>)
                  [] op = "setMainRoom" -> SetMainRoom(@, MainRoom)
                  [] OTHER -> ClearSession(@) ]
       /\ calls' = LogCall([ NoCall EXCEPT !.op = op, !.g = g ])
  /\ UNCHANGED << inMemoryState, disk, initialized, saveQueue, storeAudit,
                  nextOid, detached, channels, nextChannel, voice, proc,
                  failures, crashes, outOfBand, audit, timerVars >>

NextUpsert ==
  \/ AwaitStartOperation
  \/ AwaitUpdateProgress
  \/ AwaitCompleteOperation
  \/ AwaitTimerData
  \/ SessionCall

SpecUpsert == InitUpsert /\ [][NextUpsert]_vars

\* ------------------------------------------- distributeUsers, called alone
\* the caller's arrays: the participants in any order, up to MaxRooms + 1 rooms
InitDistribute ==
  /\ \E S \in SUBSET (1 .. MaxUsers), n \in 1 .. MaxRooms + 1 :
       \E users \in Shuffles(SetToSeq(S)) :
         proc = [ p \in Procs |->
                    IF p = 1
                    THEN [ IdleProc EXCEPT !.cmd = "distributeUsers",
                                           !.users = users,
                                           !.breakoutRooms = SetToSeq(1 .. n) ]
                    ELSE IdleProc ]
  /\ inMemoryState = << >>
  /\ disk = NoFile
  /\ StoreIdle
  /\ nextOid = 1
  /\ detached = << >>
  /\ sessions = NoSession
  /\ channels = << >>
  /\ nextChannel = 1
  /\ voice = [ m \in Members |-> MainRoom ]
  /\ failures = 0
  /\ crashes = 0
  /\ outOfBand = 0
  /\ audit = [ dup |-> {}, dupLive |-> FALSE, endMoved |-> 0 ]
  /\ now = 0
  /\ monitors = << >>

\* distributeUsers(users, breakoutRooms) returns
DistributeUsersCall ==
  /\ proc[1].cmd = "distributeUsers" /\ proc[1].pc = "idle"
  /\ \E userArray \in Shuffles(proc[1].users) :
       proc' = [ proc EXCEPT ![1] =
                   [ @ EXCEPT
                       !.pc = "done",
                       !.users = CallerArray(proc[1].users, userArray),
                       !.distribution =
                          DistributeUsers(userArray, proc[1].breakoutRooms),
                       \* the array the caller passed
                       !.roomMembers = proc[1].users ] ]
  /\ UNCHANGED << storeVars, inMemoryState, disk, nextOid, detached, sessions,
                  channels, nextChannel, voice, failures, crashes, outOfBand,
                  audit, timerVars >>

SpecDistribute == InitDistribute /\ [][DistributeUsersCall]_vars

\* the class-based distribute command: two invocations in flight, the rooms
\* created beforehand
StepClass(p, faulty) ==
  \/ DistributeOperationExecute(p)
  \/ DistStarted(p)
  \/ DistMainSaved(p)
  \/ DistMoveCall(p, faulty)
  \/ DistMoveRet(p)
  \/ DistAllSettled(p)
  \/ DistComplete(p)
  \/ DistReturn(p)
  \/ Reply(p)

NextClass == \E p \in Procs : StepClass(p, FALSE)

SpecClass == InitConc /\ [][NextClass]_vars

\* executeDistribute is called for a guild whose distribute record is still
\* in progress (the call its resume branch, lines 50-98, is written for)
InvokeDistribute(p) ==
  /\ Idle(p)
  /\ CanDispatch
  /\ HasOperationInProgress(inMemoryState, GuildId)
  /\ GetCurrentOperation(inMemoryState, GuildId).type = "distribute"
  /\ \E f \in BOOLEAN :
       proc' = [ proc EXCEPT ![p] =
                   Observe([ IdleProc EXCEPT !.pc = "defer", !.cmd = "distribute",
                                             !.force = f ]) ]
  /\ UNCHANGED << storeVars, inMemoryState, disk, nextOid, detached, sessions,
                  channels, nextChannel, voice, failures, crashes, outOfBand,
                  audit, timerVars >>

\* the commands, and the executors called directly
NextExec == Next \/ InvokeDistribute(1)

SpecExec == InitExec /\ [][NextExec]_vars

\* ------------------------------------------------------- breakout timers
\* `now` counts poll periods: setTimeout(..., 20000) and setInterval(..., 20000)
Poll == 1
\* 60 * 1000 ms, in poll periods
Minute == 3
\* the `minutes` option of /breakout timer (an integer, at least 1)
TimerMinutes == { 1, 5, 6 }
\* no timer callback is pending
NoDue == -1

\* Math.ceil((endTime - now) / (60 * 1000))
MinutesLeft(endTime, t) == -((-(endTime - t)) \div Minute)

\* the timer fires again one period after every firing
NextDueFixedRate(kind, t) == t + Poll

\* the callback pending once a tick has fired: setInterval keeps firing,
\* the setTimeout of timer.ts has been consumed
NextDue(kind, t) == IF kind = "interval" THEN t + Poll ELSE NoDue

\* monitorBreakoutTimer(timerData, interaction): the closure of one loop.
\* `timerState` is the `let` of part_007 shared by the ticks of the loop; in
\* timer.ts it is a const of the one tick that runs.  `sent` lists the
\* calls of sendReminderWithRetry, `ticks` the ticks that await something.
\* Observations: `stopped` tells why the loop returned without scheduling,
\* `threw` counts the ticks that ended in the catch block, `late` tells
\* that the loop broadcast or wrote after a later timer had been set.
MonitorBreakoutTimer(kind, timerData, t) ==
  [ kind |-> kind,
    totalMinutes |-> timerData.totalMinutes,
    endTime |-> timerData.startTime + timerData.totalMinutes * Minute,
    breakoutRooms |-> timerData.breakoutRooms,
    \* timer.ts runs the first tick at once, part_007 after one period
    due |-> IF kind = "interval" THEN t + Poll ELSE t,
    timerState |-> timerData,
    ticks |-> << >>,
    sent |-> << >>,
    stopped |-> "no",
    threw |-> 0,
    late |-> FALSE ]

\* the end of a tick that neither stopped the loop nor threw: timer.ts calls
\* setTimeout, the interval of part_007 needs nothing
Rescheduled(mon, t) ==
  IF mon.kind = "timeout" THEN [ mon EXCEPT !.due = t + Poll ] ELSE mon

\* the catch block that only logs
CatchLogsOnly(mon, t) == mon

\* the catch block of a tick: timer.ts logs and calls setTimeout, part_007
\* logs
CatchBlock(mon, t) ==
  IF mon.kind = "timeout" THEN [ mon EXCEPT !.due = t + Poll ] ELSE mon

\* a tick that finds no record and polls again
NoRecordPollsAgain(mon, t) == [ mon EXCEPT !.due = t + Poll ]

\* `if (!timerState) return`: nothing is scheduled (part_007: clearInterval)
NoRecord(mon, t) == [ mon EXCEPT !.due = NoDue, !.stopped = "removed" ]

\* sendReminderWithRetry(guildId, breakoutRooms, message, client) by loop m
Broadcast(m, mon, message) ==
  [ mon EXCEPT !.sent = Append(@, message),
               !.late = @ \/ m < Len(monitors) ]

RemoveTick(ticks, k) ==
  [ j \in 1 .. Len(ticks) - 1 |-> IF j < k THEN ticks[j] ELSE ticks[j + 1] ]

\* handleTimerCommand: the TimerRecord is written, then the monitor is started
HandleTimerCommand(kind) ==
  /\ Len(monitors) < MaxMonitors
  /\ Len(GetRooms(sessions)) # 0
  /\ \E minutes \in TimerMinutes :
       /\ now + minutes * Minute <= MaxTime
       /\ LET timerData ==
                [ totalMinutes |-> minutes, startTime |-> now,
                  breakoutRooms |-> GetRooms(sessions),
                  fiveMinSent |-> minutes - 5 <= 0 ]
          IN /\ Persist(SetTimerData(inMemoryState, GuildId, timerData))
             /\ monitors' =
                  Append(monitors, MonitorBreakoutTimer(kind, timerData, now))
  /\ UNCHANGED << storeVars, nextOid, detached, sessions, channels,
                  nextChannel, voice, proc, failures, crashes, outOfBand,
                  audit, now >>

\* the callback of the monitor is due (at most MaxTicks ticks run at a time)
TickDue(m) ==
  /\ monitors[m].due # NoDue
  /\ now >= monitors[m].due
  /\ Len(monitors[m].ticks) < MaxTicks

\* monitorTick starts: the record is read, Date.now() is taken and the branch
\* of the tick is chosen
MonitorTick(m) ==
  /\ TickDue(m)
  /\ LET mon == monitors[m]
         timerState == GetTimerData(inMemoryState, GuildId)
         fired == [ mon EXCEPT !.due = NextDue(mon.kind, now),
                               !.timerState = timerState ]
         tick(pc) ==
           [ fired EXCEPT !.ticks = Append(@, [ pc |-> pc, now |-> now ]) ]
     IN monitors' =
          [ monitors EXCEPT ![m] =
              IF timerState = NoTimer
              THEN NoRecord(fired, now)
              ELSE IF MinutesLeft(mon.endTime, now) <= 5
                      /\ ~timerState.fiveMinSent
                   THEN tick("warning")
              ELSE IF now >= mon.endTime THEN tick("ending")
              ELSE Rescheduled(fired, now) ]
  /\ UNCHANGED << storeVars, inMemoryState, disk, nextOid, detached, sessions,
                  channels, nextChannel, voice, proc, failures, crashes,
                  outOfBand, audit, now >>

\* the 5-minute warning has been sent: `timerState.fiveMinSent = true` and
\* setTimerData(guildId, timerState), then the test of `now >= endTime` with
\* the `now` of the tick.  A timerState that another tick has set to null
\* throws, and the catch block only logs.
FiveMinuteWarning(m, k) ==
  /\ monitors[m].ticks[k].pc = "warning"
  /\ LET mon == monitors[m]
         warned == Broadcast(m, mon, "warning")
         timerState == [ mon.timerState EXCEPT !.fiveMinSent = TRUE ]
     IN IF mon.timerState = NoTimer
        THEN /\ monitors' =
                  [ monitors EXCEPT ![m] =
                      [ warned EXCEPT !.ticks = RemoveTick(@, k) ] ]
             /\ UNCHANGED << inMemoryState, disk >>
        ELSE /\ Persist(SetTimerData(inMemoryState, GuildId, timerState))
             /\ monitors' =
                  [ monitors EXCEPT ![m] =
                      IF mon.ticks[k].now >= mon.endTime
                      THEN [ warned EXCEPT !.timerState = timerState,
                                           !.ticks[k].pc = "ending" ]
                      ELSE Rescheduled(
                             [ warned EXCEPT !.timerState = timerState,
                                             !.ticks = RemoveTick(@, k) ],
                             now) ]
  /\ UNCHANGED << storeVars, nextOid, detached, sessions, channels,
                  nextChannel, voice, proc, failures, crashes, outOfBand,
                  audit, now >>

\* the end message has been sent: clearTimerData, and the loop stops
TimerEnded(m, k) ==
  /\ monitors[m].ticks[k].pc = "ending"
  /\ Persist(ClearTimerData(inMemoryState, GuildId))
  /\ monitors' =
       [ monitors EXCEPT ![m] =
           [ Broadcast(m, @, "end") EXCEPT !.ticks = RemoveTick(@, k),
                                           !.due = NoDue,
                                           !.stopped = "ended" ] ]
  /\ UNCHANGED << storeVars, nextOid, detached, sessions, channels,
                  nextChannel, voice, proc, failures, crashes, outOfBand,
                  audit, now >>

\* a broadcast of the tick throws: the catch block runs
TickThrows(m, k) ==
  /\ failures < MaxFailures
  /\ failures' = failures + 1
  /\ monitors' =
       [ monitors EXCEPT ![m] =
           CatchBlock([ @ EXCEPT !.ticks = RemoveTick(@, k),
                                 !.threw = @ + 1 ], now) ]
  /\ UNCHANGED << storeVars, inMemoryState, disk, nextOid, detached, sessions,
                  channels, nextChannel, voice, proc, crashes, outOfBand,
                  audit, now >>

\* a poll period passes, once the callbacks that were due have run
DateNowAdvances ==
  /\ now < MaxTime
  /\ \A m \in DOMAIN monitors : ~TickDue(m)
  /\ now' = now + 1
  /\ UNCHANGED << storeVars, inMemoryState, disk, nextOid, detached, sessions,
                  channels, nextChannel, voice, proc, failures, crashes,
                  outOfBand, audit, monitors >>

\* the guild has breakout rooms and no timer
InitTimer ==
  /\ inMemoryState = << >>
  /\ disk = FileWith(<< >>)
  /\ StoreIdle
  /\ nextOid = 1
  /\ detached = << >>
  /\ sessions = StoreRooms(NoSession, SetToSeq(1 .. MaxRooms))
  /\ channels = [ c \in 1 .. MaxRooms |-> c ]
  /\ nextChannel = MaxRooms + 1
  /\ voice = [ m \in Members |-> MainRoom ]
  /\ proc = [ p \in Procs |-> IdleProc ]
  /\ failures = 0
  /\ crashes = 0
  /\ outOfBand = 0
  /\ audit = [ dup |-> {}, dupLive |-> FALSE, endMoved |-> 0 ]
  /\ now = 0
  /\ monitors = << >>

NextTimerOf(kind) ==
  \/ HandleTimerCommand(kind)
  \/ \E m \in DOMAIN monitors : MonitorTick(m)
  \/ \E m \in DOMAIN monitors :
       \E k \in DOMAIN monitors[m].ticks : FiveMinuteWarning(m, k)
  \/ \E m \in DOMAIN monitors :
       \E k \in DOMAIN monitors[m].ticks : TimerEnded(m, k)
  \/ DateNowAdvances

\* the monitor of services/timer.ts
NextTimer == NextTimerOf("timeout")

SpecTimer == InitTimer /\ [][NextTimer]_vars

\* the monitor of services/timer.ts with broadcasts that may throw
NextTimerFault ==
  \/ NextTimer
  \/ \E m \in DOMAIN monitors :
       \E k \in DOMAIN monitors[m].ticks : TickThrows(m, k)

SpecTimerFault == InitTimer /\ [][NextTimerFault]_vars

\* the monitor of the class TimerService
NextTimerService == NextTimerOf("interval")

SpecTimerService == InitTimer /\ [][NextTimerService]_vars

\* ================================================================ claims

C2_ResumedCreateCompletes ==
  \A p \in Procs, k \in 0 .. MaxRooms :
    LET r == proc[p]
    IN ( /\ r.pc = "done" /\ r.cmd = "create"
         /\ crashes > 0
         /\ r.entryOp.type = "create" /\ ~ r.entryOp.completed
         /\ r.entryOp.params.numRooms = r.numRooms
         /\ k < r.numRooms
         /\ DOMAIN r.entrySteps = { CreateKey(i) : i \in 1 .. k }
         /\ \A i \in 1 .. k :
              r.entrySteps[CreateKey(i)].channelId \in r.entryChannels
         /\ r.entrySession = NoSession
         /\ r.entryOutOfBand = outOfBand )
       => /\ r.result = "success"
          /\ r.creations = r.numRooms - k
          /\ Len(GetRooms(sessions)) = r.numRooms
          /\ Cardinality(Range(GetRooms(sessions))) = r.numRooms
          /\ Range(GetRooms(sessions)) \subseteq DOMAIN channels
          /\ \A i \in 1 .. k :
               r.entrySteps[CreateKey(i)].channelId \in Range(GetRooms(sessions))
          /\ GetCurrentOperation(inMemoryState, GuildId) = NoOp

\* a create for two rooms resumed after a crash that left one step recorded
C2_ResumedAfterFirstRoom ==
  \E p \in Procs :
    /\ proc[p].pc = "done" /\ proc[p].cmd = "create"
    /\ crashes > 0
    /\ proc[p].isResuming /\ proc[p].numRooms = 2
    /\ proc[p].entryOp.params.numRooms = 2
    /\ DOMAIN proc[p].entrySteps = { CreateKey(1) }
    /\ proc[p].entrySession = NoSession
    /\ proc[p].entryOutOfBand = outOfBand
    /\ proc[p].creations = 1

\* C3. After a restart that leaves a distribute record in progress (Session
\* Registry empty, the rooms of the plan still on the platform), the next
\* `/breakout distribute` reaches executeDistribute, which resumes the record
\* and completes it: the command returns success and no record stays in
\* progress.
C3_DistributeResumesAfterRestart ==
  \A p \in Procs :
    LET r == proc[p]
    IN ( /\ r.pc = "done" /\ r.cmd = "distribute"
         /\ crashes > 0
         /\ r.entryOp.type = "distribute" /\ ~ r.entryOp.completed
         /\ r.entrySession = NoSession
         /\ \A pr \in PlanPairs(r.entryOp.params.distribution) :
              pr[2] \in r.entryChannels
         /\ r.entryOutOfBand = outOfBand )
       => /\ r.isResuming
          /\ r.result = "success"
          /\ ~ HasOperationInProgress(inMemoryState, GuildId)

\* C4. Whenever an end record is in progress, executeEnd invoked again with
\* every external call succeeding (and no channel deleted by hand) returns
\* success with the record completed and cleared, also when every room of
\* the record is already gone and the Session Registry is empty.
C4_ResumedEndCompletes ==
  \A p \in Procs :
    LET r == proc[p]
    IN ( /\ r.pc = "done" /\ r.cmd = "end"
         /\ r.result \notin { "blocked", "need_main" }
         /\ r.entryOp.type = "end" /\ ~ r.entryOp.completed
         /\ ~ r.extFailed
         /\ outOfBand = 0 )
       => /\ r.result = "success"
          /\ ~ HasOperationInProgress(inMemoryState, GuildId)

\* C5. While the guild has a record with completed = false, startOperation
\* is never called with another type: no step replaces an in-progress record
\* by a new record of a different type.
C5_NoStartOfOtherType ==
  [][ ( /\ HasOperationInProgress(inMemoryState, GuildId)
        /\ nextOid' # nextOid )
      => GetCurrentOperation(inMemoryState, GuildId).type =
           GetCurrentOperation(inMemoryState', GuildId).type ]_vars

\* C10. An end operation that crashed and is resumed to completion (no
\* channel deleted by hand) reports the members moved over all attempts, and
\* a deleted count and a room total that cover every room of the original
\* plan.
C10_CountsAreCumulative ==
  \A p \in Procs :
    LET r == proc[p]
    IN ( /\ r.pc = "done" /\ r.cmd = "end" /\ r.result = "success"
         /\ crashes > 0
         /\ r.entryOp.type = "end" /\ ~ r.entryOp.completed
         /\ outOfBand = 0 )
       => /\ r.totalMoved = audit.endMoved
          /\ r.deletedRooms = Len(r.entryOp.params.roomIds)
          /\ r.totalRooms = Len(r.entryOp.params.roomIds)

\* C6. The writes of the state file are serialized: at most one save job is
\* past its turn in the queue at any time, a job runs only once the job
\* queued before it has settled, and no job stays queued behind a job that
\* has settled, whether that job's write succeeded or failed.
C6_WritesSerialized ==
  /\ Cardinality({ c \in DOMAIN calls :
                     calls[c].pc \in { "job_ready", "job_loading", "writing" } }) <= 1
  /\ \A c \in DOMAIN calls :
       /\ calls[c].pc \in { "job_ready", "job_loading", "writing" }
            => calls[c].prev = 0 \/ calls[calls[c].prev].pc = "done"
       /\ calls[c].pc = "queued" => calls[calls[c].prev].pc # "done"

\* a write failed, the write queued behind it is in flight, and a third
\* call is queued behind that one
C6_WriteAfterFailedWrite ==
  \E c, d, e \in DOMAIN calls :
    /\ calls[c].wrote = "failed"
    /\ calls[d].prev = c /\ calls[d].pc = "writing"
    /\ calls[e].prev = d /\ calls[e].pc = "queued"

\* C7. Once a mutating call has applied its change, every later read of the
\* same key returns what the last mutation of that key left.
C7_ReadAfterWrite ==
  \A c \in DOMAIN calls :
    (calls[c].op \in Readers /\ calls[c].pc = "done") => calls[c].fresh

\* C8. When updateProgress(g, key) has resolved true and its write did not
\* fail, the file holds key as a step of g's current operation (as long as
\* no later call has replaced or completed that operation).
C8_StepDurableOnReturn ==
  \A c \in DOMAIN calls :
    ( /\ calls[c].op = "updateProgress" /\ calls[c].pc = "done"
      /\ calls[c].ret /\ calls[c].wrote = "ok"
      /\ ~ calls[c].superseded )
    => calls[c].durable

\* C9. The in-memory state map is replaced from the file at most once per
\* process, and never after a mutation has been applied to it.
C9_LoadedOnce ==
  /\ storeAudit.loads <= 1
  /\ ~ storeAudit.loadAfterMutation

\* C11. Every move a resumed executeDistribute issues or counts, while the
\* record it resumed is still the current one, is a (participant, room) pair
\* of the plan persisted in that record's params.distribution.
C11_ResumeRunsPersistedPlan ==
  \A p \in Procs :
    LET r == proc[p]
        cur == GetCurrentOperation(inMemoryState, GuildId)
    IN ( /\ r.cmd = "distribute" /\ r.isResuming
         /\ r.pc = "dist_moving"
         /\ cur.oid = r.steps )
       => (r.pending \cup Range(r.roomMembers) \cup r.moveSuccess \cup r.moveFailed)
            \subseteq PlanPairs(cur.params.distribution)

C13_ExecutorsNeverThrow ==
  \A p \in Procs : proc[p].pc = "done" => proc[p].result # "threw"

\* C14. An executor that is not resuming and whose precondition fails
\* without force (create: rooms exist; distribute: a distribution is active;
\* end: no rooms, or no occupants) returns its failure with the Operation
\* Store, in memory and on disk, as it was when the executor was entered: no
\* record started, no step recorded, no channel created or deleted and no
\* member moved.
C14_PreconditionFailureChangesNothing ==
  [][ \A p \in Procs :
        ( /\ proc[p].pc = "defer" /\ proc'[p].pc = "done"
          /\ ~ proc'[p].isResuming
          /\ proc'[p].result \in { "rooms_exist", "already_distributed",
                                   "no_rooms", "no_users" } )
        => /\ inMemoryState' = inMemoryState /\ disk' = disk
           /\ nextOid' = nextOid
           /\ channels' = channels /\ voice' = voice ]_vars

\* executeDistribute has refused to redistribute, and executeEnd to end
\* rooms without occupants
C14_PreconditionFailed ==
  \E p \in Procs :
    /\ proc[p].pc = "done" /\ ~ proc[p].isResuming
    /\ proc[p].result = "already_distributed"
    /\ ~ proc[p].force

\* C15. Whenever an executor has returned success, the guild has no current
\* operation, and the newest entry of the guild's history is the operation
\* that executor ran (its type, and its identity when the executor read the
\* steps of an operation), marked completed.
C15_SuccessMeansFinalized ==
  \A p \in Procs :
    LET r == proc[p]
        h == GuildStateOf(inMemoryState, GuildId).history
    IN ( r.pc = "done" /\ r.result = "success" )
       => /\ GetCurrentOperation(inMemoryState, GuildId) = NoOp
          /\ ~ HasOperationInProgress(inMemoryState, GuildId)
          /\ h # << >>
          /\ h[Len(h)].completed
          /\ h[Len(h)].type = r.cmd
          /\ r.steps # 0 => h[Len(h)].oid = r.steps

\* C16. When executeDistribute has returned after a move of its batch failed,
\* it returned success with the operation completed: every pair of the plan
\* whose room exists was issued and is either moved (with its move_user
\* step) or in moveResults.failed (without one), the pairs of a room that is
\* not found are in neither list, and the completed record holds
\* set_main_room, the move_user steps of the moved pairs and
\* distribution_complete with both tallies.
C16_FailedMoveDoesNotAbort ==
  \A p \in Procs :
    LET r == proc[p]
        h == GuildStateOf(inMemoryState, GuildId).history
        op == h[Len(h)]
    IN ( r.pc = "done" /\ r.cmd = "distribute" /\ r.failedCall = "move" )
       => /\ r.result = "success"
          /\ GetCurrentOperation(inMemoryState, GuildId) = NoOp
          /\ h # << >> /\ op.oid = r.steps /\ op.completed
          /\ op.params.distribution = r.distribution
          /\ r.moveFailed # {}
          /\ r.moveSuccess \cup r.moveFailed =
               { pr \in PlanPairs(r.distribution) : pr[2] \in DOMAIN channels }
          /\ r.moveSuccess \cap r.moveFailed = {}
          /\ \A pr \in r.moveSuccess : voice[pr[1]] = pr[2]
          /\ \A pr \in r.moveFailed : voice[pr[1]] # pr[2]
          /\ DOMAIN op.steps =
               { StepKey("set_main_room", 0, 0),
                 StepKey("distribution_complete", 0, 0) }
               \cup { MoveKey(pr[1], pr[2]) : pr \in r.moveSuccess }
          /\ op.steps[StepKey("distribution_complete", 0, 0)].successful
               = Cardinality(r.moveSuccess)
          /\ op.steps[StepKey("distribution_complete", 0, 0)].failed
               = Cardinality(r.moveFailed)

\* C16 as stated: after a failed move every pair of the plan was issued, so
\* that each pair is either moved or in moveResults.failed.
C16_EveryMoveOfThePlanIssued ==
  \A p \in Procs :
    LET r == proc[p]
        h == GuildStateOf(inMemoryState, GuildId).history
        op == h[Len(h)]
    IN ( r.pc = "done" /\ r.cmd = "distribute" /\ r.failedCall = "move" )
       => /\ r.result = "success"
          /\ GetCurrentOperation(inMemoryState, GuildId) = NoOp
          /\ h # << >> /\ op.oid = r.steps /\ op.completed
          /\ op.params.distribution = r.distribution
          /\ r.moveFailed # {}
          /\ r.moveSuccess \cup r.moveFailed = PlanPairs(r.distribution)
          /\ r.moveSuccess \cap r.moveFailed = {}
          /\ \A pr \in r.moveSuccess : voice[pr[1]] = pr[2]
          /\ \A pr \in r.moveFailed : voice[pr[1]] # pr[2]
          /\ DOMAIN op.steps =
               { StepKey("set_main_room", 0, 0),
                 StepKey("distribution_complete", 0, 0) }
               \cup { MoveKey(pr[1], pr[2]) : pr \in r.moveSuccess }
          /\ op.steps[StepKey("distribution_complete", 0, 0)].successful
               = Cardinality(r.moveSuccess)
          /\ op.steps[StepKey("distribution_complete", 0, 0)].failed
               = Cardinality(r.moveFailed)

\* one of two moves of a distribution failed and the other one went through
C16_OneMoveFailedOneMoved ==
  \E p \in Procs :
    /\ proc[p].pc = "done" /\ proc[p].cmd = "distribute"
    /\ proc[p].failedCall = "move" /\ proc[p].result = "success"
    /\ Cardinality(proc[p].moveFailed) = 1
    /\ Cardinality(proc[p].moveSuccess) = 1

\* C17. When the newest history entry of the guild is a completed end, no
\* operation is current and no breakout channel is left, an executeEnd that
\* is entered returns 'No breakout rooms found to end!' in that same step,
\* with no member moved, no channel deleted, and the Operation Store (no
\* record started) as it was.
C17_SecondEndFindsNoRooms ==
  [][ \A p \in Procs :
        LET h == GuildStateOf(inMemoryState, GuildId).history
        IN ( /\ proc[p].pc = "defer" /\ proc[p].cmd = "end"
             /\ proc'[p] # proc[p] /\ proc'[p].pc # "idle"
             /\ GetCurrentOperation(inMemoryState, GuildId) = NoOp
             /\ h # << >> /\ h[Len(h)].type = "end" /\ h[Len(h)].completed
             /\ DOMAIN channels = {} )
           => /\ proc'[p].pc = "done" /\ proc'[p].result = "no_rooms"
              /\ proc'[p].moves = 0 /\ proc'[p].deletions = 0
              /\ inMemoryState' = inMemoryState /\ disk' = disk
              /\ nextOid' = nextOid
              /\ voice' = voice /\ channels' = channels ]_vars

\* a second end has returned after an end that deleted every room
C17_SecondEndReturned ==
  \E p \in Procs :
    LET h == GuildStateOf(inMemoryState, GuildId).history
    IN /\ proc[p].pc = "done" /\ proc[p].cmd = "end"
       /\ proc[p].result = "no_rooms" /\ proc[p].force
       /\ proc[p].entryOp = NoOp /\ proc[p].entryChannels = {}
       /\ h # << >> /\ h[Len(h)].type = "end" /\ h[Len(h)].completed
       /\ Len(h[Len(h)].params.roomIds) = 2
       /\ DOMAIN channels = {}

\* C18. When executeEnd has run over a plan (the rooms it found on a fresh
\* run, the rooms of params.roomIds on a resume) of which a room, not yet
\* marked processed, no longer existed when the command was issued, the
\* executor has returned success with the operation completed, and the
\* completed record holds that room's room_processed step with movedCount 0.
C18_MissingRoomIsProcessed ==
  \A p \in Procs :
    LET r == proc[p]
        resumed == r.entryOp.type = "end" /\ ~ r.entryOp.completed
        plan == IF resumed THEN r.entryOp.params.roomIds ELSE r.breakoutRooms
        h == GuildStateOf(inMemoryState, GuildId).history
    IN ( /\ r.pc = "done" /\ r.cmd = "end"
         /\ r.result \notin { "blocked", "need_main" }
         /\ resumed \/ r.result \notin { "no_rooms", "no_users" } )
       => \A c \in Range(plan) :
            ( c \notin r.entryChannels
              /\ RoomProcessedKey(c) \notin DOMAIN r.entrySteps )
            => /\ r.result = "success"
               /\ GetCurrentOperation(inMemoryState, GuildId) = NoOp
               /\ h # << >> /\ h[Len(h)].type = "end"
               /\ RoomProcessedKey(c) \in DOMAIN h[Len(h)].steps
               /\ h[Len(h)].steps[RoomProcessedKey(c)].movedCount = 0

\* C19. When updateProgress has been called twice in a row with the same
\* step key for a guild that has a current operation, the step map holds
\* the entries it held before the first call plus one entry for that key,
\* the entry holds the payload of the second call, every other entry is as
\* it was, and nothing else of the guild's state has changed.
C19_UpdateProgressIsUpsert ==
  LET n == Len(calls)
  IN ( /\ n >= 2
       /\ calls[n - 1].op = "updateProgress" /\ calls[n].op = "updateProgress"
       /\ calls[n - 1].key = calls[n].key /\ calls[n - 1].g = calls[n].g
       /\ GetCurrentOperation(calls[n - 1].before, calls[n].g) # NoOp )
     => LET s0 == calls[n - 1].before
            steps0 == GetCompletedSteps(s0, calls[n].g)
            steps == GetCompletedSteps(inMemoryState, calls[n].g)
            key == calls[n].key
            g == calls[n].g
        IN /\ calls[n - 1].ret /\ calls[n].ret
           /\ DOMAIN steps = DOMAIN steps0 \cup { key }
           /\ steps[key] = calls[n].data
           /\ \A k \in DOMAIN steps0 \ { key } : steps[k] = steps0[k]
           /\ inMemoryState =
                PutGuild(s0, g,
                         [ GuildStateOf(s0, g) EXCEPT
                             !.currentOperation.steps = steps ])
           /\ disk = FileWith(inMemoryState)

\* two calls in a row with one key and two payloads, another step recorded
C19_SameKeyTwoPayloads ==
  LET n == Len(calls)
  IN /\ n >= 2
     /\ calls[n - 1].op = "updateProgress" /\ calls[n].op = "updateProgress"
     /\ calls[n - 1].key = calls[n].key /\ calls[n - 1].g = calls[n].g
     /\ calls[n - 1].data # calls[n].data
     /\ calls[n - 1].ret /\ calls[n].ret
     /\ DOMAIN GetCompletedSteps(calls[n - 1].before, calls[n].g)
          \ { calls[n].key } # {}

\* C20. When the body of an updateProgress call runs for a guild that has
\* no current operation, neither in memory nor in the state file its
\* initialize() may have read, the call returns false without queueing a
\* save: the in-memory state is what it was or what was loaded, without an
\* operation record for the guild, and the file and the save queue are as
\* they were.
C20_NoOperationReturnsFalse ==
  [][ \A c \in DOMAIN calls' :
        LET g == calls'[c].g
            warm == c \notin DOMAIN calls
            seen == IF warm THEN { inMemoryState }
                    ELSE { inMemoryState, calls[c].seen.data, disk.data }
        IN ( /\ calls'[c].op = "updateProgress"
             /\ calls'[c].pc # "loading"
             /\ warm \/ calls[c].pc = "loading"
             /\ \A state \in seen : GetCurrentOperation(state, g) = NoOp )
           => /\ calls'[c].pc = "done" /\ ~ calls'[c].ret
              /\ calls'[c].wrote = "none" /\ calls'[c].prev = 0
              /\ inMemoryState' \in seen
              /\ disk' = disk
              /\ saveQueue' = saveQueue ]_vars

\* an updateProgress call has returned false for a guild whose operation
\* was completed before: the history holds it, nothing is current
C20_ReturnedFalse ==
  \E c \in DOMAIN calls :
    /\ calls[c].op = "updateProgress"
    /\ calls[c].pc = "done" /\ ~ calls[c].ret
    /\ GetCurrentOperation(inMemoryState, calls[c].g) = NoOp
    /\ GuildStateOf(inMemoryState, calls[c].g).history # << >>

\* C21. When startOperation(g, type, params) has just returned, the current
\* operation of g is a fresh record of that type and those params, started,
\* not completed, with an empty step map, whatever was current before; the
\* history of g and every other entry of the store are as before the call.
C21_StartOperationReplaces ==
  LET n == Len(calls)
  IN ( n >= 1 /\ calls[n].op = "startOperation" )
     => LET c == calls[n]
            cur == GetCurrentOperation(inMemoryState, c.g)
        IN /\ cur.type = c.type /\ cur.params = c.params
           /\ cur.started /\ ~ cur.completed /\ cur.steps = << >>
           /\ cur.oid = nextOid - 1
           /\ HasOperationInProgress(inMemoryState, c.g)
           /\ GuildStateOf(inMemoryState, c.g).history
                = GuildStateOf(c.before, c.g).history
           /\ DOMAIN inMemoryState = DOMAIN c.before \cup { GuildKey(c.g) }
           /\ \A k \in DOMAIN c.before \ { GuildKey(c.g) } :
                inMemoryState[k] = c.before[k]

\* startOperation has replaced an operation in progress that had a step, of
\* another type, for a guild with a history
C21_ReplacedOperationInProgress ==
  LET n == Len(calls)
  IN /\ n >= 1 /\ calls[n].op = "startOperation"
     /\ HasOperationInProgress(calls[n].before, calls[n].g)
     /\ GetCompletedSteps(calls[n].before, calls[n].g) # << >>
     /\ GetCurrentOperation(calls[n].before, calls[n].g).type # calls[n].type
     /\ GuildStateOf(inMemoryState, calls[n].g).history # << >>

\* C22. After any sequence of store calls every guild's history holds at
\* most HISTORY_MAX entries, and they are the last entries of the sequence
\* made of the history the store started with followed by the operations
\* completed since, in the order of their completion.
C22_HistoryIsLastCompleted ==
  \A g \in UpsertGuilds :
    LET first == IF calls = << >> THEN inMemoryState ELSE calls[1].before
        done == SelectSeq(calls, LAMBDA c : /\ c.op = "completeOperation"
                                              /\ c.g = g /\ c.ret)
        completed == [ k \in 1 .. Len(done) |->
                         [ GetCurrentOperation(done[k].before, g) EXCEPT
                             !.completed = TRUE ] ]
        all == GuildStateOf(first, g).history \o completed
        h == GuildStateOf(inMemoryState, g).history
    IN /\ Len(h) <= HISTORY_MAX
       /\ Len(h) = IF Len(all) > HISTORY_MAX THEN HISTORY_MAX ELSE Len(all)
       /\ h = SubSeq(all, Len(all) - Len(h) + 1, Len(all))

\* two operations were completed on top of a history at the cap: the two
\* oldest entries are gone and the two completed ones are the newest
C22_CapReachedTwice ==
  LET h == GuildStateOf(inMemoryState, GuildId).history
  IN /\ Len(calls) = 3
     /\ calls[1].op = "completeOperation" /\ calls[1].g = GuildId
     /\ calls[3].op = "completeOperation" /\ calls[3].g = GuildId
     /\ calls[1].ret /\ calls[3].ret
     /\ Len(GuildStateOf(calls[1].before, GuildId).history) = HISTORY_MAX
     /\ Len(h) = HISTORY_MAX
     /\ h[HISTORY_MAX].oid = nextOid - 1

\* C23. The step in which the write of a mutating store call fails settles
\* the call's promise as fulfilled, not rejected, and leaves the in-memory
\* state, with the mutation the call made, the initialized flag and the save
\* queue as they were.
C23_FailedWriteResolves ==
  [][ \A c \in DOMAIN calls :
        ( /\ calls[c].pc = "writing"
          /\ calls'[c].pc = "done" /\ calls'[c].wrote = "failed" )
        => /\ calls[c].op \in Mutators
           /\ JobFulfilled(calls'[c].wrote)
           /\ inMemoryState' = inMemoryState
           /\ initialized' = initialized
           /\ saveQueue' = saveQueue ]_vars

\* a startOperation has returned after its write failed: its record is the
\* current operation in memory and the file does not hold it
C23_StartedButNotWritten ==
  \E c \in DOMAIN calls :
    /\ calls[c].op = "startOperation"
    /\ calls[c].pc = "done" /\ calls[c].wrote = "failed"
    /\ GetCurrentOperation(inMemoryState, calls[c].g).oid = c
    /\ GetCurrentOperation(disk.data, calls[c].g).oid # c

\* C24. The step in which the initialize() of a store call returns while the
\* state file is missing or cannot be read or parsed lets the call go on to
\* its body and to its return or its save: the body runs on the state in
\* memory (empty on a cold start) when the load failed, or on an empty state
\* when the file is missing.
C24_ColdStartNeverFails ==
  [][ \A c \in DOMAIN calls :
        ( /\ calls[c].pc = "loading" /\ calls'[c].pc # "loading"
          /\ calls[c].seen.status # "ok" /\ disk.status # "ok" )
        => /\ calls'[c].pc \in { "done", "job_ready", "queued" }
           /\ inMemoryState' \in
                { Mutate(inMemoryState, calls[c], c) }
                \cup { Mutate(<< >>, calls[c], c) :
                         f \in { x \in { calls[c].seen, disk } :
                                   x.status = "missing" } } ]_vars

\* a startOperation issued on a cold start with an unparseable file has
\* returned: no load ever succeeded, the operation is in memory and written
C24_StartedOnUnparseableFile ==
  \E c \in DOMAIN calls :
    /\ calls[c].op = "startOperation"
    /\ calls[c].pc = "done" /\ calls[c].wrote = "ok"
    /\ storeAudit.loads = 0 /\ ~ initialized
    /\ GetCurrentOperation(inMemoryState, calls[c].g).oid = c
    /\ disk = FileWith(inMemoryState)

\* C25. A setTimerData or clearTimerData call changes no guild's operation
\* state (current operation, steps, history), a startOperation,
\* updateProgress or completeOperation call changes no guild's TimerRecord,
\* and no key of a TimerRecord is the key of a guild's operation state.
C25_TimerNamespaceIndependent ==
  [][ calls' # calls =>
        LET c == calls'[Len(calls')]
        IN /\ c.op \in { "setTimerData", "clearTimerData" }
              => \A g \in UpsertGuilds :
                   /\ GuildStateOf(inMemoryState', g)
                        = GuildStateOf(inMemoryState, g)
                   /\ GuildKey(g) \in DOMAIN inMemoryState'
                        <=> GuildKey(g) \in DOMAIN inMemoryState
           /\ c.op \in { "startOperation", "updateProgress",
                         "completeOperation" }
              => \A g \in UpsertGuilds :
                   /\ GetTimerData(inMemoryState', g)
                        = GetTimerData(inMemoryState, g)
                   /\ TimerKey(g) \in DOMAIN inMemoryState'
                        <=> TimerKey(g) \in DOMAIN inMemoryState
           /\ \A g, h \in UpsertGuilds : TimerKey(g) # GuildKey(h) ]_vars

\* a timer was set for a guild with an operation in progress, which was then
\* completed with the timer in place
C25_TimerSetDuringOperation ==
  LET n == Len(calls)
  IN /\ n >= 2
     /\ calls[n - 1].op = "setTimerData"
     /\ calls[n].op = "completeOperation" /\ calls[n].ret
     /\ calls[n - 1].g = calls[n].g
     /\ GetTimerData(inMemoryState, calls[n].g) = StoreTimer
     /\ GuildStateOf(inMemoryState, calls[n].g).history # << >>

\* C26. A step of a store call made for one guild leaves the operation state
\* (current operation, steps, history) and the TimerRecord of every other
\* guild as they were, or, for a guild no call has mutated yet, as the state
\* file holds them.
C26_GuildScoped ==
  [][ \A c \in DOMAIN calls' :
        ( c \notin DOMAIN calls \/ calls'[c].pc # calls[c].pc )
        => \A g \in UpsertGuilds \ { calls'[c].g } :
             /\ \/ GuildStateOf(inMemoryState', g)
                     = GuildStateOf(inMemoryState, g)
                \/ /\ GuildKey(g) \notin storeAudit.touched
                   /\ GuildStateOf(inMemoryState', g)
                        \in { GuildStateOf(disk.data, g),
                              GuildStateOf(calls[c].seen.data, g) }
             /\ \/ GetTimerData(inMemoryState', g)
                     = GetTimerData(inMemoryState, g)
                \/ /\ TimerKey(g) \notin storeAudit.touched
                   /\ GetTimerData(inMemoryState', g)
                        \in { GetTimerData(disk.data, g),
                              GetTimerData(calls[c].seen.data, g) } ]_vars

\* C27. What distributeUsers returns for a non-empty list of rooms and a set
\* of participants has one bucket per room, in the rooms' order; every
\* participant is at exactly one place of exactly one bucket, nothing else is
\* in a bucket, and the sizes of two buckets differ by at most 1.
C27_EvenPartition ==
  LET r == proc[1]
      d == r.distribution
  IN ( r.cmd = "distributeUsers" /\ r.pc = "done" )
     => /\ Len(d) = Len(r.breakoutRooms)
        /\ \A k \in 1 .. Len(d) : d[k].room = r.breakoutRooms[k]
        /\ \A u \in Range(r.roomMembers) :
             Cardinality({ kx \in (1 .. Len(d)) \X (1 .. MaxUsers + 1) :
                             /\ kx[2] <= Len(d[kx[1]].users)
                             /\ d[kx[1]].users[kx[2]] = u }) = 1
        /\ \A k \in 1 .. Len(d) : Range(d[k].users) \subseteq Range(r.roomMembers)
        /\ \A j, k \in 1 .. Len(d) :
             Len(d[j].users) - Len(d[k].users) \in { -1, 0, 1 }

\* four participants were distributed over three rooms
C27_FourOverThree ==
  /\ proc[1].cmd = "distributeUsers" /\ proc[1].pc = "done"
  /\ Len(proc[1].roomMembers) = 4 /\ Len(proc[1].breakoutRooms) = 3
  /\ Len(proc[1].distribution[1].users) = 2

C29_ShortTimerOnlyEnds ==
  \A m \in DOMAIN monitors :
    monitors[m].totalMinutes <= 5
      => Range(monitors[m].sent) \subseteq { "end" }

\* a timer of 5 minutes has run to its end and broadcast the end message
C29_ShortTimerEnded ==
  \E m \in DOMAIN monitors :
    /\ monitors[m].totalMinutes = 5
    /\ monitors[m].sent = << "end" >>
    /\ monitors[m].due = NoDue


\* C30. At any time at most one tick of a given monitor loop is executing:
\* no tick starts while an earlier tick of the same loop still awaits a
\* broadcast or a store call.
C30_TicksNeverOverlap ==
  \A m \in DOMAIN monitors : Len(monitors[m].ticks) <= 1

\* a tick is broadcasting while the callback of its loop is due again
C30_TickOutlastsPeriod ==
  \E m \in DOMAIN monitors :
    /\ Len(monitors[m].ticks) = 1
    /\ monitors[m].ticks[1].pc = "warning"
    /\ now > monitors[m].ticks[1].now

\* C31. A monitor loop of timer.ts returns without a scheduled tick only
\* when a tick has ended the timer or found its record removed: a tick that
\* threw has scheduled the next tick, or its successors have.
C31_ThrowKeepsMonitoring ==
  \A m \in DOMAIN monitors :
    ( monitors[m].due = NoDue /\ monitors[m].ticks = << >> )
      => monitors[m].stopped \in { "ended", "removed" }

\* a tick threw while broadcasting the end message, and a later tick of the
\* loop ended the timer
C31_EndedAfterThrow ==
  \E m \in DOMAIN monitors :
    /\ monitors[m].threw > 0
    /\ monitors[m].stopped = "ended"

\* C32. Once every monitor loop has returned, the timer that was set last
\* (the armed one) has reached its end: its loop stopped in the tick that
\* broadcast the end message, broadcast it once, and the record is deleted.
C32_ArmedTimerEnds ==
  ( /\ monitors # << >>
    /\ \A m \in DOMAIN monitors :
         monitors[m].due = NoDue /\ monitors[m].ticks = << >> )
  => /\ monitors[Len(monitors)].stopped = "ended"
     /\ Cardinality({ i \in DOMAIN monitors[Len(monitors)].sent :
                        monitors[Len(monitors)].sent[i] = "end" }) = 1
     /\ GetTimerData(inMemoryState, GuildId) = NoTimer

\* the one timer of the guild, of 6 minutes, has warned and ended
C32_WarnedAndEnded ==
  /\ Len(monitors) = 1
  /\ monitors[1].sent = << "warning", "end" >>
  /\ monitors[1].stopped = "ended"
  /\ GetTimerData(inMemoryState, GuildId) = NoTimer

\* C33. A tick that finds no TimerRecord stops the loop silently: in the
\* step of that tick nothing is broadcast, the store and the file are not
\* written, no tick is left scheduled and none is started; and every tick that
\* starts with no record stops the loop in that way.
C33_NoRecordStopsSilently ==
  [][ \A m \in DOMAIN monitors :
        /\ ( monitors[m].stopped # "removed" /\ monitors'[m].stopped = "removed" )
             => /\ monitors'[m].sent = monitors[m].sent
                /\ monitors'[m].ticks = monitors[m].ticks
                /\ monitors'[m].due = NoDue
                /\ inMemoryState' = inMemoryState
                /\ disk' = disk
        /\ ( /\ TickDue(m)
             /\ GetTimerData(inMemoryState, GuildId) = NoTimer
             /\ monitors'[m] # monitors[m] )
             => monitors'[m].stopped = "removed" ]_vars

\* a loop stopped on a missing record without having broadcast anything
C33_StoppedOnMissingRecord ==
  \E m \in DOMAIN monitors :
    /\ monitors[m].stopped = "removed"
    /\ monitors[m].sent = << >>
    /\ monitors[m].due = NoDue

\* C36. A monitor loop whose timer has been superseded by a later timer of
\* the guild broadcasts nothing after the later TimerRecord was written.
C36_SupersededIsSilent ==
  \A m \in DOMAIN monitors : ~monitors[m].late

\* a second timer was set while the loop of the first was still polling
C36_SetWhileMonitored ==
  /\ Len(monitors) = 2
  /\ monitors[1].due # NoDue
  /\ monitors[1].stopped = "no"
  /\ GetTimerData(inMemoryState, GuildId).startTime > 0

\* C34 (as amended). The existing rooms are the rooms that
\* hasExistingBreakoutRooms returned.  In a forced executeCreate that found
\* existing rooms, startOperation is called in the step that settles the
\* deletion of the last room found and clears the Session Registry; the
\* deletions before it leave the store as it is; a forced create that starts
\* its record at once found no room; and no room is deleted by the executor
\* once its record has been started.
C34_CleanupBeforeStart ==
  [][ \A p \in Procs :
        /\ ( proc[p].pc = "cleanup" /\ proc'[p].pc = "create_started" )
             => /\ Len(proc[p].cleanup) = 1
                /\ Head(proc[p].cleanup) \notin DOMAIN channels'
                /\ sessions' = NoSession
        /\ ( /\ proc[p].pc = "cleanup" /\ proc'[p].pc = "cleanup"
             /\ proc'[p] # proc[p] )
             => /\ Head(proc[p].cleanup) \notin DOMAIN channels'
                /\ proc'[p].cleanup = Tail(proc[p].cleanup)
                /\ inMemoryState' = inMemoryState
                /\ disk' = disk
        /\ ( /\ proc[p].pc = "defer" /\ proc[p].cmd = "create" /\ proc[p].force
             /\ proc'[p].pc = "create_started" )
             => ~HasExistingBreakoutRooms(sessions).exists
        /\ ( /\ proc[p].cmd = "create"
             /\ proc[p].pc \notin { "idle", "defer", "cleanup" }
             /\ proc'[p].cmd = "create" )
             => proc'[p].deletions = proc[p].deletions ]_vars

\* a forced create has deleted two existing rooms and started its record
C34_TwoRoomsReplaced ==
  \E p \in Procs :
    /\ proc[p].cmd = "create" /\ proc[p].force
    /\ proc[p].pc = "create_started"
    /\ proc[p].deletions = 2
    /\ DOMAIN channels = {}

\* C34 (as stated). When the forced executeCreate starts its record after the
\* cleanup, no breakout room is left on the platform.
C34_NoBreakoutRoomLeft ==
  [][ \A p \in Procs :
        ( proc[p].pc = "cleanup" /\ proc'[p].pc = "create_started" )
          => DOMAIN channels' = {} ]_vars

\* C35. In executeDistribute: a move is issued only when set_main_room is
\* recorded; distribution_complete is recorded by the step that follows the
\* settling of every issued move and of its step record, and the step map then
\* holds the steps found at entry, set_main_room, distribution_complete and
\* one step per moved pair, whatever the order the moves settled in; the
\* record is completed only when distribution_complete is recorded.
C35_DependencyOrder ==
  [][ LET steps == GetCompletedSteps(inMemoryState, GuildId)
          after == GetCompletedSteps(inMemoryState', GuildId)
          main == StepKey("set_main_room", 0, 0)
          complete == StepKey("distribution_complete", 0, 0)
      IN /\ \A p \in Procs :
              /\ ( /\ proc'[p].cmd = "distribute"
                   /\ proc'[p].moves > proc[p].moves )
                   => main \in DOMAIN steps
              /\ ( proc[p].pc = "dist_moving" /\ proc'[p].pc = "dist_marked" )
                   => /\ proc[p].pending = {} /\ proc[p].roomMembers = << >>
                      /\ DOMAIN after =
                           { main, complete } \cup DOMAIN proc[p].entrySteps \cup
                           { MoveKey(pr[1], pr[2]) : pr \in proc[p].moveSuccess }
         /\ ( complete \notin DOMAIN steps /\ complete \in DOMAIN after )
              => \E p \in Procs :
                   proc[p].pc = "dist_moving" /\ proc'[p].pc = "dist_marked"
         /\ ( /\ GetCurrentOperation(inMemoryState, GuildId).type = "distribute"
              /\ ~HasOperationInProgress(inMemoryState', GuildId) )
              => complete \in DOMAIN steps ]_vars

\* a distribution of two moves has been completed
C35_TwoMovesCompleted ==
  \E p \in Procs :
    /\ proc[p].pc = "dist_complete"
    /\ proc[p].moves = 2
    /\ Cardinality(proc[p].moveSuccess) = 2

\* C37. A room whose room_processed step is recorded in the guild's current
\* operation does not exist on the platform.
C37_ProcessedRoomIsGone ==
  \A c \in DOMAIN channels :
    RoomProcessedKey(c) \notin DOMAIN GetCompletedSteps(inMemoryState, GuildId)

\* executeEnd has deleted a room and marked it processed
C37_DeletedAndProcessed ==
  \E p \in Procs : \E c \in proc[p].entryChannels :
    /\ proc[p].cmd = "end"
    /\ proc[p].deletions > 0
    /\ c \notin DOMAIN channels
    /\ RoomDeletedKey(c) \in DOMAIN GetCompletedSteps(inMemoryState, GuildId)
    /\ RoomProcessedKey(c) \in DOMAIN GetCompletedSteps(inMemoryState, GuildId)

\* C38. When a resumed executeCreate has stored its rooms, the Session
\* Registry holds as many rooms as params.numRooms of the record it resumed.
C38_ResumeUsesSnapshot ==
  \A p \in Procs :
    ( /\ proc[p].cmd = "create" /\ proc[p].isResuming
      /\ proc[p].pc = "create_complete" )
    => Len(GetRooms(sessions)) = proc[p].entryOp.params.numRooms

\* a create started for two rooms was resumed and has stored two rooms
C38_ResumedForTwo ==
  \E p \in Procs :
    /\ proc[p].cmd = "create" /\ proc[p].isResuming
    /\ proc[p].pc = "create_complete"
    /\ proc[p].entryOp.params.numRooms = 2
    /\ Len(GetRooms(sessions)) = 2

\* C39. In the store map and in the state file, for every guild: a current
\* operation is started and not completed, every history entry is started
\* and completed, and hasOperationInProgress holds exactly when there is a
\* current operation.
C39_RecordsWellFormed ==
  \A state \in { inMemoryState, disk.data } : \A g \in UpsertGuilds :
    /\ GetCurrentOperation(state, g) # NoOp
         => /\ GetCurrentOperation(state, g).started
            /\ ~GetCurrentOperation(state, g).completed
    /\ \A i \in DOMAIN GuildStateOf(state, g).history :
         /\ GuildStateOf(state, g).history[i].started
         /\ GuildStateOf(state, g).history[i].completed
    /\ HasOperationInProgress(state, g) <=> GetCurrentOperation(state, g) # NoOp

\* a guild has a completed operation in its history and a new one in progress
C39_HistoryAndCurrent ==
  \E g \in UpsertGuilds :
    /\ GuildStateOf(inMemoryState, g).history # << >>
    /\ HasOperationInProgress(inMemoryState, g)
    /\ GetCurrentOperation(inMemoryState, g).oid # 0

\* C40. Once every store call has returned, every queued save has settled
\* and the save queued last wrote the file, the state file holds the
\* serialization of the state map in memory.
C40_DiskConverges ==
  ( /\ saveQueue # 0
    /\ \A c \in DOMAIN calls : calls[c].pc = "done"
    /\ calls[saveQueue].wrote = "ok" )
  => disk = FileWith(inMemoryState)

\* two mutating calls have been saved, the second after the first, and the
\* file holds the state map
C40_TwoSavesSettled ==
  /\ saveQueue # 0
  /\ \A c \in DOMAIN calls : calls[c].pc = "done"
  /\ calls[saveQueue].wrote = "ok"
  /\ calls[saveQueue].prev # 0
  /\ disk = FileWith(inMemoryState)

====
